---- MODULE Spec2Model ----
(***************************************************************************)
(* A model of the Xdebug MCP bridge: the session registry and the command  *)
(* bridge of src/src/debug/dapBridge.ts, the tool handlers of the MCP      *)
(* server (src/unnamed/part_003, lines 1-515) and the per-request teardown *)
(* of src/src/mcp/httpTransport.ts.                                        *)
(*                                                                         *)
(* JavaScript strings are sequences of chunks (a chunk stands for a run of *)
(* characters), so that String.prototype.includes is a real search for a   *)
(* contiguous run.  An optional value is a sequence of length 0            *)
(* (undefined) or 1.                                                       *)
(***************************************************************************)
EXTENDS Integers, Sequences, FiniteSets, TLC

\* ---------------------------------------------------------------- bounds

\* Tool calls (HTTP requests) that may be in flight at the same time.
MaxCalls == 1
\* The poll counters of a wait_for_stop call count up to this and stay there.
MaxPolls == 2
MaxTextLen == 2
MaxChunks == 3
\* HTTP requests whose handlers may run at the same time, the server /
\* adapter pairs created in a run, and the close signals a response may emit.
MaxRequests == 2
MaxInstances == 3
MaxSignals == 2
MaxHeaderChunks == 4
\* Tool calls of other requests that may run beside those, and the stopped
\* states of a session that are counted as they end.
MaxConcurrent == 1
MaxEnded == 2
MaxServers == 3
MaxStarts == 2
MaxStops == 2

Calls == 1..MaxCalls
ConcurrentCalls == (MaxCalls + 1)..(MaxCalls + MaxConcurrent)
Requests == 1..MaxRequests
Instances == 1..MaxInstances
Servers == 1..MaxServers
StartCalls == 1..MaxStarts
StopCalls == 1..MaxStops

\* ---------------------------------------------------------------- values

Undefined == <<>>
Some(x) == <<x>>

\* The debug sessions of the host, and session.id of each.
Sessions == {"A", "B"}
NoSession == "none"

SessionIdOf(s) == IF s = "A" THEN <<"s1">> ELSE <<"s2">>

\* The 'notStopped' marker searched for in error messages.
NotStoppedNeedle == <<"not", "Stopped">>

\* What a caller may send as sessionId: nothing, the empty string, the id
\* of a session of the host, or any other string.
SessionIdInputs ==
  {Undefined, Some(<<>>), Some(<<"s1">>), Some(<<"s2">>), Some(NotStoppedNeedle)}

\* String.prototype.includes
Includes(message, needle) ==
  \E i \in 0..(Len(message) - Len(needle)) :
    SubSeq(message, i + 1, i + Len(needle)) = needle

\* A thrown value: an Error instance with its message, or another value
\* with what String(value) gives, and body.error.id when there is one.
MkError(msg) == [instanceOfError |-> TRUE, message |-> msg, asString |-> <<"Error: ">> \o msg, bodyErrorId |-> Undefined]

NoError == [instanceOfError |-> FALSE, message |-> <<>>, asString |-> <<>>, bodyErrorId |-> Undefined]

SessionNotFound(id) == MkError(<<"Debug session not found: ">> \o id)

NoActiveSession == MkError(<<"No active debug session">>)

\* The rejection of the protocol server when the arguments fail the schema.
InvalidArguments == MkError(<<"Invalid arguments">>)

\* Errors a session answers while the debuggee runs ...
NotStoppedErrors ==
  { MkError(<<"x", "not", "Stopped">>),
    [MkError(<<"x">>) EXCEPT !.bodyErrorId = Some(NotStoppedNeedle)],
    [instanceOfError |-> FALSE, message |-> <<>>, asString |-> NotStoppedNeedle, bodyErrorId |-> Undefined] }

\* ... and errors it answers for any other failure.
OtherErrors ==
  { MkError(<<"not", "x", "Stopped">>),
    [MkError(<<"x">>) EXCEPT !.bodyErrorId = Some(<<"x">>)],
    [instanceOfError |-> FALSE, message |-> <<>>, asString |-> <<"x">>, bodyErrorId |-> Undefined] }

\* isNotStoppedError of dapBridge.ts, and its copy in the tool layer
IsNotStoppedError(error) ==
  LET message == IF error.instanceOfError THEN error.message ELSE error.asString
  IN  IF Includes(message, NotStoppedNeedle)
      THEN TRUE
      ELSE error.bodyErrorId = Some(NotStoppedNeedle)

\* The states of a debuggee, as its session answers stackTrace.
DebuggeeStates == {"running", "stopped", "stoppedNoFrames", "broken"}

\* Thread lists a session may report, and the id of a top frame.
ThreadLists == {<<>>, <<5>>}
NoThreadsAnswer == [ok |-> FALSE, hasList |-> FALSE, threads |-> <<>>]
TopFrameOf(s) == IF s = "A" THEN 7 ELSE 8

\* The files breakpoints are set in, and the lists a caller may submit; the
\* last one breaks the schema (line: z.number().int().positive()).
Files == {"a.php", "b.php"}
BreakpointLists == {<<>>, <<[line |-> 10], [line |-> 20]>>, <<[line |-> 30]>>}
BreakpointInputs == BreakpointLists \cup {<<[line |-> 0]>>}

NoRequest == [command |-> "none", path |-> "", breakpoints |-> <<>>, sourceModified |-> FALSE]

\* JSON values of tool arguments: a number is an integer v or the fraction
\* v + 1/2; anything else here is a string.
Num(n) == [t |-> "number", int |-> TRUE, v |-> n, s |-> ""]
Frac(n) == [t |-> "number", int |-> FALSE, v |-> n, s |-> ""]
Str(chars) == [t |-> "string", int |-> FALSE, v |-> 0, s |-> chars]
Bool(b) == [t |-> "boolean", int |-> FALSE, v |-> IF b THEN 1 ELSE 0, s |-> ""]

\* zod: z.number(), .int(), .positive(), .nonnegative() / .min(0), z.string(),
\* .min(1), z.enum([...]), z.boolean(); Given is what .optional() lets be
\* absent
ZNumber(x) == x.t = "number"
ZInt(x) == ZNumber(x) /\ x.int
ZPositive(x) == IF x.int THEN x.v > 0 ELSE x.v >= 0
ZNonnegative(x) == x.v >= 0
ZString(x) == x.t = "string"
ZBoolean(x) == x.t = "boolean"
ZMin1(x) == x.s # ""
ZEnum(x, values) == ZString(x) /\ x.s \in values
Given(x) == x # Undefined

\* The arguments of a tool call other than sessionId, and the parameters of
\* an RPC; a field that is not given is undefined.
NoArgs ==
  [threadId |-> Undefined, startFrame |-> Undefined, levels |-> Undefined,
   variablesReference |-> Undefined, start |-> Undefined, count |-> Undefined,
   filter |-> Undefined, frameId |-> Undefined, expression |-> Undefined,
   context |-> Undefined, includeExpensive |-> Undefined, maxVariables |-> Undefined,
   restart |-> Undefined, terminateDebuggee |-> Undefined, suspendDebuggee |-> Undefined,
   breakpoints |-> Undefined, filters |-> Undefined, exceptionOptions |-> Undefined]

\* x ?? fallback
Coalesce(x, fallback) == IF x = Undefined THEN Some(fallback) ELSE x

\* Guard against large JSON-RPC payloads.
MAX_BODY_BYTES == 2 * 1024 * 1024

\* The sizes of the chunks a request body arrives in, and the bodies.
ChunkSizes == {0, 1, MAX_BODY_BYTES \div 2, MAX_BODY_BYTES - 1, MAX_BODY_BYTES}
Bodies == UNION {[1..n -> ChunkSizes] : n \in 0..MaxChunks}

RECURSIVE ByteLength(_)
ByteLength(chunks) == IF chunks = <<>> THEN 0 ELSE Head(chunks) + ByteLength(Tail(chunks))

NoEnvelope == [jsonrpc |-> "", code |-> 0, message |-> "", data |-> Undefined, id |-> ""]

\* req.headers.accept and req.headers['content-type']: absent, or a string,
\* written as the pieces it is made of.
NoHeaders == [accept |-> Undefined, contentType |-> Undefined]
HeaderChunks == {"application/json", "text/event-stream", ", ", "-seq"}
AcceptValues ==
  {Undefined} \cup {Some(v) : v \in UNION {[1..n -> HeaderChunks] : n \in 0..MaxHeaderChunks}}
ContentTypeValues == {Undefined, Some(<<>>), Some(<<"application/json">>), Some(<<"text/plain">>)}

\* The HTTP side of a request before any of it has been handled.
NoHttp ==
  [ method |-> "", pathname |-> "",
    given |-> NoHeaders,          \* the headers as the client sent them
    headers |-> NoHeaders,        \* req.headers
    body |-> <<>>,                \* the chunks of the body, as the client sends them
    wellFormed |-> FALSE,         \* the body, decoded, is JSON
    arrived |-> 0,                \* chunks that have been delivered
    size |-> 0, chunks |-> 0,     \* readJsonBody's size and chunks.length
    destroyed |-> FALSE,          \* req.destroy() was called
    parseAttempted |-> FALSE,     \* JSON.parse was called
    transportError |-> FALSE,     \* req emitted 'error'
    statusCode |-> 0, envelope |-> NoEnvelope,
    madeServer |-> FALSE,         \* makeServer and the transport were created
    connected |-> FALSE,          \* server.connect(transport) was called
    dispatched |-> FALSE ]        \* transport.handleRequest was called

\* ---------------------------------------------------------------- state

VARIABLES
  active,           \* vscode.debug.activeDebugSession
  sessionRegistry,  \* the Map session id -> session
  debuggee,         \* the state of each session's debuggee
  armed,            \* the breakpoints each session holds for each file
  calls,            \* the tool calls in flight
  requests,         \* the HTTP requests on the accepted path, as their handler sees them
  instances,        \* the protocol server / wire adapter pairs makeServer has created
  lastEvent,        \* the last tracking event that named each session, as an observer logs it
  ended,            \* the stopped states of each session that a resume or a step has ended
  runningServer,    \* the module's runningServer
  serverUriPromise, \* the module's serverUriPromise
  httpServers,      \* the HTTP servers createServer has made
  startCalls,       \* the calls of startHttpServer
  stopCalls         \* the calls of stopHttpServer

lifecycle == <<runningServer, serverUriPromise, httpServers, startCalls, stopCalls>>

vars == <<active, sessionRegistry, debuggee, armed, calls, requests, instances, lastEvent, ended, lifecycle>>

IdleCall ==
  [ kind |-> "none", pc |-> "idle",
    sessionId |-> Undefined,      \* the sessionId argument
    session |-> NoSession,        \* the session the call's last RPC went to
    rpcs |-> 0,                   \* RPCs the call has issued
    answered |-> 0,               \* RPCs of the call that have settled, where it is counted
    threads |-> <<>>, threadId |-> 0,
    threadsAnswer |-> NoThreadsAnswer,  \* what the threads RPC of status settled with
    probe |-> "none",             \* how the stackTrace probe ended
    probeError |-> NoError,
    stopped |-> FALSE,
    sessions |-> {},              \* the result of list_sessions
    sleeps |-> 0,                 \* poll delays of wait_for_stop that have elapsed
    notHalted |-> 0,              \* stack fetches that failed with the not-halted condition
    sawEmpty |-> FALSE,           \* a stack fetch succeeded with no frame
    onlyNotHalted |-> TRUE,       \* every stack fetch so far failed with the not-halted condition
    lastFetch |-> "none",         \* what the last stack fetch came to
    fetchError |-> NoError,       \* the error of a fetch that failed otherwise
    fetched |-> <<>>,             \* the frames of the last successful stack fetch
    frame |-> Undefined,          \* the frame of the result
    minted |-> 0,                 \* the stopped states of the session that had ended when it gave the call its ids
    scopes |-> <<>>,              \* the scopes the session reported to snapshot
    cursor |-> 0,                 \* the scope snapshot is fetching the variables of
    scopedVariables |-> <<>>,     \* the {scope, variables} pairs snapshot has gathered
    listening |-> FALSE,          \* handleClose is registered on the response
    resClosed |-> FALSE,          \* the response has emitted 'close'
    closed |-> FALSE,             \* closeTransport has run
    file |-> "",                  \* the file argument
    breakpoints |-> <<>>,         \* the breakpoints argument
    request |-> NoRequest,        \* the setBreakpoints request in flight
    replaced |-> <<>>,            \* what the session held for the file before the call
    reported |-> <<>>,            \* what the session reported on the request's entries
    results |-> <<>>,             \* the verification results returned
    http |-> NoHttp,              \* the HTTP request, for a request seen at the HTTP layer
    args |-> NoArgs,              \* the other arguments of the call
    text |-> <<>>,                \* the {frameId} path parameter of a resource read
    sent |-> <<>>,                \* the RPCs the call has sent, in order
    result |-> <<>>,              \* what an inspection tool returns
    error |-> NoError ]           \* the error the call failed with

\* The handler of an HTTP request: its closure (closed, the listener), how
\* far closeTransport has come, and what it has written.
IdleRequest ==
  [ pc |-> "idle",
    instance |-> 0,               \* the server / transport pair of the request
    listening |-> FALSE,          \* handleClose is registered on the response
    closed |-> FALSE,             \* let closed
    step |-> "none",              \* closeTransport: closingTransport, closingServer, done
    signals |-> 0,                \* 'close' events the response has emitted
    transportCloseFailed |-> FALSE,
    headersSent |-> FALSE,        \* res.headersSent
    threw |-> FALSE,              \* connect or handleRequest threw
    sentAtThrow |-> FALSE,        \* res.headersSent when it threw
    statusCode |-> 0, errorBody |-> Undefined ]

\* A server / transport pair: who was handed it, and the close() calls made
\* on each half and by whom.
NoInstance ==
  [ made |-> FALSE, users |-> {}, closers |-> {}, transportCloses |-> 0, serverCloses |-> 0 ]

\* runningServer / serverUriPromise when undefined
NoServer == 0

\* An HTTP server of createServer: whether it holds the port, and how the
\* promise startHttpServer made around its listen() has settled.
NoHttpServer == [ state |-> "none", promise |-> "none" ]

\* A call of startHttpServer: the server whose promise it returned, whether
\* a call of stopHttpServer has begun since it was made, and whether one has
\* begun or completed since.
IdleStart == [ pc |-> "idle", server |-> NoServer, stopBegunSince |-> FALSE, stopSince |-> FALSE ]

\* A call of stopHttpServer: the server it asked to close.
IdleStop == [ pc |-> "idle", server |-> NoServer ]

\* ---------------------------------------------------------------- registry

\* trackSession: sessionRegistry.set(session.id, session)
TrackSession(registry, session) ==
  [id \in DOMAIN registry \cup {SessionIdOf(session)} |->
     IF id = SessionIdOf(session) THEN session ELSE registry[id]]

UntrackSessionKeeping(registry, session) == registry

\* sessionRegistry.delete(session.id)
UntrackSession(registry, session) ==
  [id \in DOMAIN registry \ {SessionIdOf(session)} |-> registry[id]]

DescribeSession(session) == [id |-> SessionIdOf(session), name |-> session]

\* if (sessionId): a string is truthy unless it is empty
Truthy(sessionId) == sessionId # Undefined /\ Len(sessionId[1]) > 0

GetSessionPreferringActive(sessionId) ==
  IF active # NoSession
  THEN [ok |-> TRUE, session |-> active, error |-> NoError]
  ELSE IF Truthy(sessionId) /\ sessionId[1] \in DOMAIN sessionRegistry
       THEN [ok |-> TRUE, session |-> sessionRegistry[sessionId[1]], error |-> NoError]
       ELSE [ok |-> FALSE, session |-> NoSession, error |-> NoActiveSession]

GetSessionFallingBack(sessionId) ==
  IF Truthy(sessionId) /\ sessionId[1] \in DOMAIN sessionRegistry
  THEN [ok |-> TRUE, session |-> sessionRegistry[sessionId[1]], error |-> NoError]
  ELSE IF active = NoSession
       THEN [ok |-> FALSE, session |-> NoSession, error |-> NoActiveSession]
       ELSE [ok |-> TRUE, session |-> active, error |-> NoError]

\* getSession, in the current state
GetSession(sessionId) ==
  IF Truthy(sessionId)
  THEN IF sessionId[1] \in DOMAIN sessionRegistry
       THEN [ok |-> TRUE, session |-> sessionRegistry[sessionId[1]], error |-> NoError]
       ELSE [ok |-> FALSE, session |-> NoSession, error |-> SessionNotFound(sessionId[1])]
  ELSE IF active = NoSession
       THEN [ok |-> FALSE, session |-> NoSession, error |-> NoActiveSession]
       ELSE [ok |-> TRUE, session |-> active, error |-> NoError]

\* sessionIdSchema: z.string().min(1).optional()
SessionIdSchemaOk(sessionId) == sessionId = Undefined \/ Len(sessionId[1]) >= 1

\* registerSessionTracking, before any event: the active session is tracked
Init ==
  /\ active \in Sessions \cup {NoSession}
  /\ sessionRegistry = IF active # NoSession THEN TrackSession(<<>>, active) ELSE <<>>
  /\ debuggee = [s \in Sessions |-> "running"]
  /\ armed = [s \in Sessions |-> [f \in Files |-> <<>>]]
  /\ calls = [c \in Calls \cup ConcurrentCalls |-> IdleCall]
  /\ requests = [r \in Requests |-> IdleRequest]
  /\ instances = [i \in Instances |-> NoInstance]
  /\ lastEvent = [s \in Sessions |-> "none"]
  /\ ended = [s \in Sessions |-> 0]
  /\ runningServer = NoServer
  /\ serverUriPromise = NoServer
  /\ httpServers = [k \in Servers |-> NoHttpServer]
  /\ startCalls = [k \in StartCalls |-> IdleStart]
  /\ stopCalls = [k \in StopCalls |-> IdleStop]

OnDidStartDebugSession(s) ==
  /\ sessionRegistry' = TrackSession(sessionRegistry, s)
  /\ UNCHANGED <<active, debuggee, armed, calls, requests, instances, lastEvent, ended, lifecycle>>

OnDidTerminateDebugSession(s) ==
  /\ sessionRegistry' = UntrackSession(sessionRegistry, s)
  /\ UNCHANGED <<active, debuggee, armed, calls, requests, instances, lastEvent, ended, lifecycle>>

\* The host moves its active-session pointer and fires the event.
OnDidChangeActiveDebugSession(s) ==
  /\ active' = s
  /\ sessionRegistry' = IF s # NoSession THEN TrackSession(sessionRegistry, s) ELSE sessionRegistry
  /\ UNCHANGED <<debuggee, armed, calls, requests, instances, lastEvent, ended, lifecycle>>

\* The debuggee of a session halts, resumes or breaks.
DebuggeeChanges(s, st) ==
  /\ debuggee[s] # st
  /\ debuggee' = [debuggee EXCEPT ![s] = st]
  /\ UNCHANGED <<active, sessionRegistry, armed, calls, requests, instances, lastEvent, ended, lifecycle>>

RegistryEvent ==
  \/ \E s \in Sessions : OnDidStartDebugSession(s)
  \/ \E s \in Sessions : OnDidTerminateDebugSession(s)
  \/ \E s \in Sessions \cup {NoSession} : OnDidChangeActiveDebugSession(s)

HostEvent ==
  \/ RegistryEvent
  \/ \E s \in Sessions, st \in DebuggeeStates : DebuggeeChanges(s, st)

\* The response has been delivered: the slot is free for the next request.
CallFinish(c) ==
  /\ calls[c].pc \in {"returned", "failed"}
  /\ calls' = [calls EXCEPT ![c] = IdleCall]
  /\ UNCHANGED <<active, sessionRegistry, debuggee, armed, requests, instances, lastEvent, ended, lifecycle>>

\* ---------------------------------------------------------------- list_sessions

ListSessions(c) ==
  /\ calls[c].pc = "idle"
  /\ LET registry == IF active # NoSession /\ SessionIdOf(active) \notin DOMAIN sessionRegistry
                     THEN TrackSession(sessionRegistry, active)
                     ELSE sessionRegistry
     IN  /\ sessionRegistry' = registry
         /\ calls' = [calls EXCEPT ![c] =
              [IdleCall EXCEPT !.kind = "list_sessions", !.pc = "returned",
                               !.sessions = {DescribeSession(registry[id]) : id \in DOMAIN registry}]]
  /\ UNCHANGED <<active, debuggee, armed, requests, instances, lastEvent, ended, lifecycle>>

\* ---------------------------------------------------------------- RPC answers

\* A customRequest as it leaves for a session.
Rpc(command, session, params) == [command |-> command, session |-> session, params |-> params]

\* What session.customRequest('threads') may settle with: a failure, a
\* response without a thread list, or a list of thread ids.
ThreadsAnswers ==
  {[ok |-> FALSE, hasList |-> FALSE, threads |-> <<>>], [ok |-> TRUE, hasList |-> FALSE, threads |-> <<>>]}
    \cup {[ok |-> TRUE, hasList |-> TRUE, threads |-> t] : t \in ThreadLists}

\* What session.customRequest('stackTrace') of session s settles with now.
StackTraceAnswers(s) ==
  CASE debuggee[s] = "running" -> {[ok |-> FALSE, frames |-> <<>>, error |-> e] : e \in NotStoppedErrors}
    [] debuggee[s] = "stopped" -> {[ok |-> TRUE, frames |-> <<TopFrameOf(s)>>, error |-> NoError]}
    [] debuggee[s] = "stoppedNoFrames" -> {[ok |-> TRUE, frames |-> <<>>, error |-> NoError]}
    [] OTHER -> {[ok |-> FALSE, frames |-> <<>>, error |-> e] : e \in OtherErrors}

\* ---------------------------------------------------------------- status

\* An awaited customRequest has settled and the handler resumes.
Answered(call) == [call EXCEPT !.answered = call.answered + 1]

\* The status tool is invoked: the schema, getSession, then the threads RPC.
StatusStart(c, sessionId) ==
  /\ calls[c].pc = "idle"
  /\ LET r == GetSession(sessionId)
         call == [IdleCall EXCEPT !.kind = "status", !.sessionId = sessionId]
     IN  calls' = [calls EXCEPT ![c] =
           IF ~SessionIdSchemaOk(sessionId)
           THEN [call EXCEPT !.pc = "failed", !.error = InvalidArguments]
           ELSE IF ~r.ok
           THEN [call EXCEPT !.pc = "failed", !.error = r.error]
           ELSE [call EXCEPT !.pc = "awaitThreads", !.session = r.session, !.rpcs = 1,
                             !.sent = <<Rpc("threads", r.session, NoArgs)>>]]
  /\ UNCHANGED <<active, sessionRegistry, debuggee, armed, requests, instances, lastEvent, ended, lifecycle>>

\* safeThreads: the reported list; [] for an answer without one and for a
\* rejection, which the catch swallows.
SafeThreads(answer) == IF answer.ok /\ answer.hasList THEN answer.threads ELSE <<>>

StatusThreadIdAlwaysOne(threads) == 1

\* threads[0]?.id ?? 1
StatusThreadId(threads) == IF Len(threads) > 0 THEN threads[1] ELSE 1

\* customRequest('stackTrace', { threadId, startFrame: 0, levels: 1 })
StatusProbeParams(threadId) ==
  [NoArgs EXCEPT !.threadId = Some(Num(threadId)), !.startFrame = Some(Num(0)), !.levels = Some(Num(1))]

\* safeThreads settles; the thread id is picked; the probe is sent to the
\* session resolved at the start.
StatusThreadsSettle(c, answer) ==
  /\ calls[c].kind = "status" /\ calls[c].pc = "awaitThreads"
  /\ LET threads == SafeThreads(answer)
         threadId == StatusThreadId(threads)
     IN  calls' = [calls EXCEPT ![c].threads = threads,
                                ![c].threadsAnswer = answer,
                                ![c].threadId = threadId,
                                ![c].rpcs = 2,
                                ![c].answered = @ + 1,
                                ![c].sent = Append(@, Rpc("stackTrace", calls[c].session,
                                                          StatusProbeParams(threadId))),
                                ![c].pc = "awaitProbe"]
  /\ UNCHANGED <<active, sessionRegistry, debuggee, armed, requests, instances, lastEvent, ended, lifecycle>>

StatusProbeOutcomeSwallowAll(call, answer) ==
  IF answer.ok
  THEN [call EXCEPT !.pc = "returned", !.probe = "ok", !.stopped = TRUE]
  ELSE [call EXCEPT !.pc = "returned", !.probe = "error", !.probeError = answer.error, !.stopped = FALSE]

\* try { await stackTrace; stopped = true } catch { if (!isNotStoppedError) throw }
StatusProbeOutcome(call, answer) ==
  IF answer.ok
  THEN [call EXCEPT !.pc = "returned", !.probe = "ok", !.stopped = TRUE]
  ELSE IF ~IsNotStoppedError(answer.error)
  THEN [call EXCEPT !.pc = "failed", !.probe = "error", !.probeError = answer.error, !.error = answer.error]
  ELSE [call EXCEPT !.pc = "returned", !.probe = "error", !.probeError = answer.error, !.stopped = FALSE]

StatusProbeSettle(c) ==
  /\ calls[c].kind = "status" /\ calls[c].pc = "awaitProbe"
  /\ \E answer \in StackTraceAnswers(calls[c].session) :
       calls' = [calls EXCEPT ![c] = StatusProbeOutcome(Answered(calls[c]), answer)]
  /\ UNCHANGED <<active, sessionRegistry, debuggee, armed, requests, instances, lastEvent, ended, lifecycle>>

StatusStep(c) ==
  \/ \E sessionId \in SessionIdInputs : StatusStart(c, sessionId)
  \/ \E answer \in ThreadsAnswers : StatusThreadsSettle(c, answer)
  \/ StatusProbeSettle(c)

Next ==
  \/ HostEvent
  \/ \E c \in Calls : ListSessions(c)
  \/ \E c \in Calls : StatusStep(c)
  \/ \E c \in Calls : CallFinish(c)

Spec == Init /\ [][Next]_vars

\* ---------------------------------------------------------------- wait_for_stop

\* A counter of polls: it counts to its ceiling and stays there.
CountTo(ceiling, n) == IF n < ceiling THEN n + 1 ELSE n

\* What a stack fetch (dap.stack) of a wait_for_stop call came to, noted
\* beside the call: the errors that carry the not-halted marker are those a
\* running debuggee answers, and getSession's error for an id that holds it.
NotHaltedCondition(error) ==
  error \in NotStoppedErrors \/ error = SessionNotFound(NotStoppedNeedle)

NoteFetch(call, ok, frames, error) ==
  IF ok
  THEN [call EXCEPT !.lastFetch = IF Len(frames) > 0 THEN "frame" ELSE "empty",
                    !.fetched = frames,
                    !.sawEmpty = call.sawEmpty \/ Len(frames) = 0,
                    !.onlyNotHalted = FALSE]
  ELSE IF NotHaltedCondition(error)
  THEN [call EXCEPT !.lastFetch = "notHalted", !.notHalted = CountTo(MaxPolls, call.notHalted)]
  ELSE [call EXCEPT !.lastFetch = "other", !.fetchError = error, !.onlyNotHalted = FALSE]

WfsPollGivingUp(call) ==
  LET r == GetSession(call.sessionId)
  IN  IF call.sleeps >= 1
      THEN [call EXCEPT !.pc = "failed", !.error = MkError(<<"timed out">>)]
      ELSE IF r.ok
      THEN [call EXCEPT !.pc = "awaitStack", !.session = r.session,
                        !.rpcs = CountTo(MaxPolls + 1, call.rpcs)]
      ELSE IF IsNotStoppedError(r.error)
      THEN [call EXCEPT !.pc = "sleeping"]
      ELSE [call EXCEPT !.pc = "failed", !.error = r.error]

\* poll() up to its await: dap.stack calls getSession and sends stackTrace;
\* an error getSession throws is caught by poll like a rejection of the RPC.
WfsPoll(call) ==
  LET r == GetSession(call.sessionId)
  IN  IF r.ok
      THEN [call EXCEPT !.pc = "awaitStack", !.session = r.session,
                        !.rpcs = CountTo(MaxPolls + 1, call.rpcs)]
      ELSE IF IsNotStoppedError(r.error)
      THEN [call EXCEPT !.pc = "sleeping"]
      ELSE [call EXCEPT !.pc = "failed", !.error = r.error]

\* A poll, with what its fetch came to noted when getSession threw.
WfsPollNoted(call) ==
  LET r == GetSession(call.sessionId)
  IN  IF r.ok THEN WfsPoll(call) ELSE NoteFetch(WfsPoll(call), FALSE, <<>>, r.error)

\* The wait_for_stop tool is invoked: the schema, res.on('close'), first poll.
WfsStart(c, sessionId) ==
  /\ calls[c].pc = "idle"
  /\ LET call == [IdleCall EXCEPT !.kind = "wait_for_stop", !.sessionId = sessionId, !.listening = TRUE]
     IN  calls' = [calls EXCEPT ![c] =
           IF ~SessionIdSchemaOk(sessionId)
           THEN [call EXCEPT !.pc = "failed", !.error = InvalidArguments]
           ELSE WfsPollNoted(call)]
  /\ UNCHANGED <<active, sessionRegistry, debuggee, armed, requests, instances, lastEvent, ended, lifecycle>>

WfsStackOutcomeBusyLoop(call, answer) ==
  IF answer.ok /\ Len(answer.frames) > 0
  THEN [call EXCEPT !.pc = "returned", !.stopped = TRUE, !.frame = Some(answer.frames[1])]
  ELSE IF answer.ok \/ IsNotStoppedError(answer.error)
  THEN WfsPoll(call)
  ELSE [call EXCEPT !.pc = "failed", !.error = answer.error]

WfsStackOutcomeSwallowAll(call, answer) ==
  IF answer.ok /\ Len(answer.frames) > 0
  THEN [call EXCEPT !.pc = "returned", !.stopped = TRUE, !.frame = Some(answer.frames[1])]
  ELSE [call EXCEPT !.pc = "sleeping"]

\* poll() after its await, and the loop test: frames[0] ends the wait, an
\* empty list or a not-halted rejection sleeps, any other rejection throws.
WfsStackOutcome(call, answer) ==
  IF answer.ok
  THEN IF Len(answer.frames) > 0
       THEN [call EXCEPT !.pc = "returned", !.stopped = TRUE, !.frame = Some(answer.frames[1])]
       ELSE [call EXCEPT !.pc = "sleeping"]
  ELSE IF IsNotStoppedError(answer.error)
  THEN [call EXCEPT !.pc = "sleeping"]
  ELSE [call EXCEPT !.pc = "failed", !.error = answer.error]

WfsStackSettle(c) ==
  /\ calls[c].kind = "wait_for_stop" /\ calls[c].pc = "awaitStack"
  /\ \E answer \in StackTraceAnswers(calls[c].session) :
       calls' = [calls EXCEPT ![c] =
         NoteFetch(WfsStackOutcome(calls[c], answer), answer.ok, answer.frames, answer.error)]
  /\ UNCHANGED <<active, sessionRegistry, debuggee, armed, requests, instances, lastEvent, ended, lifecycle>>

\* setTimeout(resolve, pollMs) fires: the loop polls again.
WfsTimerFires(c) ==
  /\ calls[c].kind = "wait_for_stop" /\ calls[c].pc = "sleeping"
  /\ calls' = [calls EXCEPT ![c] =
       WfsPollNoted([calls[c] EXCEPT !.sleeps = CountTo(MaxPolls, calls[c].sleeps)])]
  /\ UNCHANGED <<active, sessionRegistry, debuggee, armed, requests, instances, lastEvent, ended, lifecycle>>

WfsStep(c) ==
  \/ \E sessionId \in SessionIdInputs : WfsStart(c, sessionId)
  \/ WfsStackSettle(c)
  \/ WfsTimerFires(c)

\* ---------------------------------------------------------------- teardown

\* await transport.handleRequest(...) is over: finally removes handleClose.
HandleRequestReturns(c) ==
  /\ calls[c].pc # "idle" /\ calls[c].listening
  /\ calls' = [calls EXCEPT ![c].listening = FALSE]
  /\ UNCHANGED <<active, sessionRegistry, debuggee, armed, requests, instances, lastEvent, ended, lifecycle>>

\* The response emits 'close' (the client went away, or the response ended):
\* handleClose, if still registered, runs closeTransport.
ResponseClose(c) ==
  /\ calls[c].pc # "idle" /\ ~calls[c].resClosed
  /\ calls' = [calls EXCEPT ![c].resClosed = TRUE,
                            ![c].closed = calls[c].closed \/ calls[c].listening]
  /\ UNCHANGED <<active, sessionRegistry, debuggee, armed, requests, instances, lastEvent, ended, lifecycle>>

WaitNext ==
  \/ HostEvent
  \/ \E c \in Calls : WfsStep(c)
  \/ \E c \in Calls : CallFinish(c)

WaitSpec == Init /\ [][WaitNext]_vars

\* The poll timer fires and a sent RPC is answered.
WaitFairSpec ==
  /\ WaitSpec
  /\ \A c \in Calls : WF_vars(WfsTimerFires(c)) /\ WF_vars(WfsStackSettle(c))

\* wait_for_stop calls together with the teardown of their requests.
CloseNext ==
  \/ WaitNext
  \/ \E c \in Calls : HandleRequestReturns(c)
  \/ \E c \in Calls : ResponseClose(c)

CloseSpec == Init /\ [][CloseNext]_vars

\* ---------------------------------------------------------------- breakpoints

\* breakpoints: z.array(z.object({line: z.number().int().positive(), ...}))
BreakpointsSchemaOk(breakpoints) == \A i \in 1..Len(breakpoints) : breakpoints[i].line > 0

SetFileBreakpointsRequestFirstOnly(options) ==
  [command |-> "setBreakpoints", path |-> options.file,
   breakpoints |-> IF options.breakpoints = <<>> THEN <<>> ELSE <<Head(options.breakpoints)>>,
   sourceModified |-> FALSE]

\* The request of setFileBreakpoints: source.path, the list as submitted,
\* sourceModified ?? false.
SetFileBreakpointsRequest(options) ==
  [command |-> "setBreakpoints", path |-> options.file,
   breakpoints |-> options.breakpoints,
   sourceModified |-> IF options.sourceModified = Undefined THEN FALSE ELSE options.sourceModified[1]]

ClearFileBreakpointsRequestOfNothing(options) ==
  [command |-> "setBreakpoints", path |-> "",
   breakpoints |-> <<>>,
   sourceModified |-> FALSE]

\* clearFileBreakpoints: setFileBreakpoints({sessionId, file, breakpoints: []})
ClearFileBreakpointsRequest(options) ==
  SetFileBreakpointsRequest([sessionId |-> options.sessionId, file |-> options.file,
                             breakpoints |-> <<>>, sourceModified |-> Undefined])

\* setFileBreakpoints up to its await: getSession, then the request is sent.
SendBreakpoints(call, request) ==
  LET r == GetSession(call.sessionId)
  IN  IF ~r.ok
      THEN [call EXCEPT !.pc = "failed", !.error = r.error]
      ELSE [call EXCEPT !.pc = "awaitBp", !.session = r.session, !.request = request, !.rpcs = 1,
                        !.sent = <<Rpc(request.command, r.session, NoArgs)>>]

\* The set_breakpoint tool is invoked.
SetBreakpointStart(c, sessionId, file, breakpoints) ==
  /\ calls[c].pc = "idle"
  /\ LET call == [IdleCall EXCEPT !.kind = "set_breakpoint", !.sessionId = sessionId,
                                  !.file = file, !.breakpoints = breakpoints]
     IN  calls' = [calls EXCEPT ![c] =
           IF ~SessionIdSchemaOk(sessionId) \/ ~BreakpointsSchemaOk(breakpoints)
           THEN [call EXCEPT !.pc = "failed", !.error = InvalidArguments]
           ELSE SendBreakpoints(call, SetFileBreakpointsRequest(
                  [sessionId |-> sessionId, file |-> file, breakpoints |-> breakpoints,
                   sourceModified |-> Undefined]))]
  /\ UNCHANGED <<active, sessionRegistry, debuggee, armed, requests, instances, lastEvent, ended, lifecycle>>

\* The clear_breakpoints tool is invoked.
ClearBreakpointsStart(c, sessionId, file) ==
  /\ calls[c].pc = "idle"
  /\ LET call == [IdleCall EXCEPT !.kind = "clear_breakpoints", !.sessionId = sessionId, !.file = file]
     IN  calls' = [calls EXCEPT ![c] =
           IF ~SessionIdSchemaOk(sessionId)
           THEN [call EXCEPT !.pc = "failed", !.error = InvalidArguments]
           ELSE SendBreakpoints(call, ClearFileBreakpointsRequest([sessionId |-> sessionId, file |-> file]))]
  /\ UNCHANGED <<active, sessionRegistry, debuggee, armed, requests, instances, lastEvent, ended, lifecycle>>

\* What a session may report on the i-th entry of a request (BreakpointUpdate:
\* id?, verified?, message?).
ReportKinds == {"verified", "unverified", "bare"}

ReportedEntry(kind, i) ==
  CASE kind = "verified"   -> [id |-> Some(i), verified |-> Some(TRUE), message |-> Undefined]
    [] kind = "unverified" -> [id |-> Some(i), verified |-> Some(FALSE), message |-> Some("m")]
    [] kind = "bare"       -> [id |-> Undefined, verified |-> Undefined, message |-> Undefined]

\* The body of a setBreakpoints response: one entry per entry of the
\* request, in the request's order.
SessionResponse(request, kind) ==
  [i \in 1..Len(request.breakpoints) |-> ReportedEntry(kind, i)]

\* !!item.verified
NotNot(verified) == verified = Some(TRUE)

\* set_breakpoint: result.map(item => ({verified: !!item.verified, message: item.message}))
SetBreakpointResults(result) ==
  [i \in 1..Len(result) |->
     [id |-> Undefined, verified |-> Some(NotNot(result[i].verified)), message |-> result[i].message]]

\* clear_breakpoints: structuredResult({results: result})
ClearBreakpointsResults(result) == result

\* The session answers setBreakpoints: it replaces what it held for the
\* source by the list of the request and reports on each entry in order.
BreakpointsAccepted(c, kind) ==
  /\ calls[c].kind \in {"set_breakpoint", "clear_breakpoints"} /\ calls[c].pc = "awaitBp"
  /\ LET request == calls[c].request
         session == calls[c].session
         response == SessionResponse(request, kind)
     IN  /\ armed' = [armed EXCEPT ![session][request.path] = request.breakpoints]
         /\ calls' = [calls EXCEPT ![c].pc = "returned",
                                   ![c].replaced = armed[session][request.path],
                                   ![c].reported = response,
                                   ![c].results =
                                     IF calls[c].kind = "set_breakpoint"
                                     THEN SetBreakpointResults(response)
                                     ELSE ClearBreakpointsResults(response)]
  /\ UNCHANGED <<active, sessionRegistry, debuggee, requests, instances, lastEvent, ended, lifecycle>>

\* The session rejects setBreakpoints and keeps what it held.
BreakpointsRejected(c, error) ==
  /\ calls[c].kind \in {"set_breakpoint", "clear_breakpoints"} /\ calls[c].pc = "awaitBp"
  /\ calls' = [calls EXCEPT ![c].pc = "failed", ![c].error = error]
  /\ UNCHANGED <<active, sessionRegistry, debuggee, armed, requests, instances, lastEvent, ended, lifecycle>>

BreakpointStep(c) ==
  \/ \E sessionId \in SessionIdInputs, file \in Files, breakpoints \in BreakpointInputs :
       SetBreakpointStart(c, sessionId, file, breakpoints)
  \/ \E sessionId \in SessionIdInputs, file \in Files : ClearBreakpointsStart(c, sessionId, file)
  \/ \E kind \in ReportKinds : BreakpointsAccepted(c, kind)
  \/ \E error \in OtherErrors \cup NotStoppedErrors : BreakpointsRejected(c, error)

BpNext ==
  \/ RegistryEvent
  \/ \E c \in Calls : BreakpointStep(c)
  \/ \E c \in Calls : CallFinish(c)

BpSpec == Init /\ [][BpNext]_vars

\* ---------------------------------------------------------------- inspection tools

\* The arguments a caller may give the stack tool: well-formed ones, and
\* ones that are of the wrong type, fractional or out of bounds.
StackArgs ==
  {NoArgs}
    \cup {[NoArgs EXCEPT !.threadId = Some(x)] : x \in {Num(1), Num(0), Frac(1), Str("1")}}
    \cup {[NoArgs EXCEPT !.startFrame = Some(x)] : x \in {Num(0), Num(2), Num(-1)}}
    \cup {[NoArgs EXCEPT !.levels = Some(x)] : x \in {Num(1), Num(0), Frac(0)}}

\* The arguments a caller may give the variables tool; variablesReference
\* is required.
VariablesArgs ==
  {[NoArgs EXCEPT !.variablesReference = x] :
      x \in {Undefined, Some(Num(0)), Some(Num(3)), Some(Num(-1)), Some(Frac(3)), Some(Str("3"))}}
    \cup {[NoArgs EXCEPT !.variablesReference = Some(Num(3)), !.start = Some(x)] : x \in {Num(0), Num(-1)}}
    \cup {[NoArgs EXCEPT !.variablesReference = Some(Num(3)), !.count = Some(x)] : x \in {Num(5), Num(0)}}
    \cup {[NoArgs EXCEPT !.variablesReference = Some(Num(3)), !.filter = Some(Str(x))] :
            x \in {"indexed", "named", "all"}}

ZPositiveInt(x) == ZInt(x) /\ ZPositive(x)
ZNonnegativeInt(x) == ZInt(x) /\ ZNonnegative(x)
ZFilter(x) == ZEnum(x, {"indexed", "named"})

StackSchemaOkTypesOnly(sessionId, args) ==
  /\ SessionIdSchemaOk(sessionId)
  /\ (Given(args.threadId) => ZNumber(args.threadId[1]))
  /\ (Given(args.startFrame) => ZNumber(args.startFrame[1]))
  /\ (Given(args.levels) => ZNumber(args.levels[1]))

\* inputSchema of the stack tool
StackSchemaOk(sessionId, args) ==
  /\ SessionIdSchemaOk(sessionId)
  /\ (Given(args.threadId) => ZPositiveInt(args.threadId[1]))
  /\ (Given(args.startFrame) => ZNonnegativeInt(args.startFrame[1]))
  /\ (Given(args.levels) => ZPositiveInt(args.levels[1]))

\* inputSchema of the variables tool
VariablesSchemaOk(sessionId, args) ==
  /\ SessionIdSchemaOk(sessionId)
  /\ (Given(args.variablesReference) /\ ZNonnegativeInt(args.variablesReference[1]))
  /\ (Given(args.start) => ZNonnegativeInt(args.start[1]))
  /\ (Given(args.count) => ZPositiveInt(args.count[1]))
  /\ (Given(args.filter) => ZFilter(args.filter[1]))

\* A request as session.customRequest hands it to a session.
\* A bridge operation up to its await: getSession, then one customRequest.
BridgeSend(call, command, params, pc) ==
  LET r == GetSession(call.sessionId)
  IN  IF ~r.ok
      THEN [call EXCEPT !.pc = "failed", !.error = r.error]
      ELSE [call EXCEPT !.pc = pc, !.session = r.session, !.rpcs = call.rpcs + 1,
                        !.sent = Append(call.sent, Rpc(command, r.session, params))]

\* dap.stack: threadId ?? 1, startFrame ?? 0, levels
StackParams(options) ==
  [NoArgs EXCEPT !.threadId = Coalesce(options.threadId, Num(1)),
                 !.startFrame = Coalesce(options.startFrame, Num(0)),
                 !.levels = options.levels]

\* dap.variables: variablesReference, start, count, filter
VariablesParams(options) ==
  [NoArgs EXCEPT !.variablesReference = options.variablesReference,
                 !.start = options.start, !.count = options.count, !.filter = options.filter]

\* The stack tool is invoked.
StackToolStart(c, sessionId, args) ==
  /\ calls[c].pc = "idle"
  /\ LET call == [IdleCall EXCEPT !.kind = "stack", !.sessionId = sessionId, !.args = args]
     IN  calls' = [calls EXCEPT ![c] =
           IF ~StackSchemaOk(sessionId, args)
           THEN [call EXCEPT !.pc = "failed", !.error = InvalidArguments]
           ELSE BridgeSend(call, "stackTrace", StackParams(args), "awaitStackTool")]
  /\ UNCHANGED <<active, sessionRegistry, debuggee, armed, requests, instances, lastEvent, ended, lifecycle>>

StackToolOutcomeEmptyWhenNotStopped(call, answer) ==
  IF answer.ok
  THEN [call EXCEPT !.pc = "returned", !.result = answer.frames]
  ELSE IF IsNotStoppedError(answer.error)
  THEN [call EXCEPT !.pc = "returned", !.result = <<>>]
  ELSE [call EXCEPT !.pc = "failed", !.error = answer.error]

\* const frames = await dap.stack(...): the frames are returned, a rejection
\* leaves the handler as it is.
StackToolOutcome(call, answer) ==
  IF answer.ok
  THEN [call EXCEPT !.pc = "returned", !.result = answer.frames]
  ELSE [call EXCEPT !.pc = "failed", !.error = answer.error]

\* The stackTrace of the stack tool settles.
StackToolSettle(c) ==
  /\ calls[c].kind = "stack" /\ calls[c].pc = "awaitStackTool"
  /\ \E answer \in StackTraceAnswers(calls[c].session) :
       calls' = [calls EXCEPT ![c] = StackToolOutcome(calls[c], answer)]
  /\ UNCHANGED <<active, sessionRegistry, debuggee, armed, requests, instances, lastEvent, ended, lifecycle>>

\* What session.customRequest('variables') of session s settles with now.
VariablesAnswers(s) ==
  CASE debuggee[s] = "running" -> {[ok |-> FALSE, variables |-> <<>>, error |-> e] : e \in NotStoppedErrors}
    [] debuggee[s] \in {"stopped", "stoppedNoFrames"} ->
         {[ok |-> TRUE, variables |-> <<"v">>, error |-> NoError]}
    [] OTHER -> {[ok |-> FALSE, variables |-> <<>>, error |-> e] : e \in OtherErrors}

\* The variables tool is invoked.
VariablesToolStart(c, sessionId, args) ==
  /\ calls[c].pc = "idle"
  /\ LET call == [IdleCall EXCEPT !.kind = "variables", !.sessionId = sessionId, !.args = args]
     IN  calls' = [calls EXCEPT ![c] =
           IF ~VariablesSchemaOk(sessionId, args)
           THEN [call EXCEPT !.pc = "failed", !.error = InvalidArguments]
           ELSE BridgeSend(call, "variables", VariablesParams(args), "awaitVariablesTool")]
  /\ UNCHANGED <<active, sessionRegistry, debuggee, armed, requests, instances, lastEvent, ended, lifecycle>>

VariablesToolSettle(c) ==
  /\ calls[c].kind = "variables" /\ calls[c].pc = "awaitVariablesTool"
  /\ \E answer \in VariablesAnswers(calls[c].session) :
       calls' = [calls EXCEPT ![c] =
         IF answer.ok
         THEN [calls[c] EXCEPT !.pc = "returned", !.result = answer.variables]
         ELSE [calls[c] EXCEPT !.pc = "failed", !.error = answer.error]]
  /\ UNCHANGED <<active, sessionRegistry, debuggee, armed, requests, instances, lastEvent, ended, lifecycle>>

\* ---------------------------------------------------------------- variables resource

\* The characters of a {frameId} path parameter, and the parameters.
Digits == {"0", "7"}
Chars == Digits \cup {"-", ".", "a"}
Texts == UNION {[1..n -> Chars] : n \in 0..MaxTextLen}

NaN == [t |-> "nan", int |-> FALSE, v |-> 0, s |-> ""]

RECURSIVE DigitsValue(_)
DigitsValue(digits) ==
  IF digits = <<>> THEN 0
  ELSE 10 * DigitsValue(SubSeq(digits, 1, Len(digits) - 1))
         + (IF digits[Len(digits)] = "7" THEN 7 ELSE 0)

AllDigits(text) == \A i \in 1..Len(text) : text[i] \in Digits

\* parseInt(text, 10): the longest prefix that is a number, signed or not.
VariablesResourceFrameIdParsedAsInt(text) ==
  LET neg == Len(text) > 0 /\ text[1] = "-"
      body == IF neg THEN Tail(text) ELSE text
      ends == {n \in 0..Len(body) : AllDigits(SubSeq(body, 1, n))}
      n == CHOOSE m \in ends : \A k \in ends : k <= m
      magnitude == DigitsValue(SubSeq(body, 1, n))
  IN  IF n = 0 THEN NaN ELSE Num(IF neg THEN 0 - magnitude ELSE magnitude)

\* Number(text): the empty string is 0; an optional sign, then digits with
\* at most one point and at least one digit, is that number; all else is NaN.
Number(text) ==
  LET neg == Len(text) > 0 /\ text[1] = "-"
      body == IF neg THEN Tail(text) ELSE text
      points == {i \in 1..Len(body) : body[i] = "."}
      point == IF points = {} THEN Len(body) + 1 ELSE CHOOSE i \in points : TRUE
      whole == SubSeq(body, 1, point - 1)
      fraction == SubSeq(body, point + 1, Len(body))
      magnitude == DigitsValue(whole)
  IN  IF text = <<>> THEN Num(0)
      ELSE IF Cardinality(points) > 1 \/ ~AllDigits(whole) \/ ~AllDigits(fraction)
              \/ Len(whole) + Len(fraction) = 0
      THEN NaN
      ELSE IF \E i \in 1..Len(fraction) : fraction[i] # "0"
      THEN Frac(IF neg THEN 0 - magnitude - 1 ELSE magnitude)
      ELSE Num(IF neg THEN 0 - magnitude ELSE magnitude)

\* throw new Error('frameId must be a number')
FrameIdMustBeNumber == MkError(<<"frameId must be a number">>)

\* What session.customRequest('scopes') of session s settles with now.
ScopeLists ==
  { <<>>,
    <<[variablesReference |-> 3, expensive |-> FALSE], [variablesReference |-> 4, expensive |-> TRUE],
      [variablesReference |-> 5, expensive |-> FALSE]>> }

ScopesAnswers(s) ==
  CASE debuggee[s] = "running" -> {[ok |-> FALSE, scopes |-> <<>>, error |-> e] : e \in NotStoppedErrors}
    [] debuggee[s] = "stopped" -> {[ok |-> TRUE, scopes |-> l, error |-> NoError] : l \in ScopeLists}
    [] debuggee[s] = "stoppedNoFrames" -> {[ok |-> TRUE, scopes |-> <<>>, error |-> NoError]}
    [] OTHER -> {[ok |-> FALSE, scopes |-> <<>>, error |-> e] : e \in OtherErrors}

\* dap.scopes: frameId
ScopesParams(frameId) == [NoArgs EXCEPT !.frameId = Some(frameId)]

\* const frameId = Number(variables?.frameId)
VariablesResourceFrameId(text) == Number(text)

LastScope(scopes) == scopes[Len(scopes)]

\* const firstScope = scopes[0]
FirstScope(scopes) == scopes[1]

\* xdebug://variables/{frameId} is read: the frame id, then dap.scopes.
VariablesResourceStart(c, text) ==
  /\ calls[c].pc = "idle"
  /\ LET call == [IdleCall EXCEPT !.kind = "variables_resource", !.text = text]
         frameId == VariablesResourceFrameId(text)
     IN  calls' = [calls EXCEPT ![c] =
           IF frameId = NaN
           THEN [call EXCEPT !.pc = "failed", !.error = FrameIdMustBeNumber]
           ELSE BridgeSend(call, "scopes", ScopesParams(frameId), "awaitScopes")]
  /\ UNCHANGED <<active, sessionRegistry, debuggee, armed, requests, instances, lastEvent, ended, lifecycle>>

\* scopes settles: the variables of the first scope are fetched, if any.
VariablesResourceScopesSettle(c) ==
  /\ calls[c].kind = "variables_resource" /\ calls[c].pc = "awaitScopes"
  /\ \E answer \in ScopesAnswers(calls[c].session) :
       calls' = [calls EXCEPT ![c] =
         IF ~answer.ok
         THEN [calls[c] EXCEPT !.pc = "failed", !.error = answer.error]
         ELSE IF answer.scopes = <<>>
         THEN [calls[c] EXCEPT !.pc = "returned", !.result = <<>>]
         ELSE BridgeSend(calls[c], "variables",
                VariablesParams([NoArgs EXCEPT !.variablesReference =
                                   Some(Num(FirstScope(answer.scopes).variablesReference))]),
                "awaitVariables")]
  /\ UNCHANGED <<active, sessionRegistry, debuggee, armed, requests, instances, lastEvent, ended, lifecycle>>

VariablesResourceVariablesSettle(c) ==
  /\ calls[c].kind = "variables_resource" /\ calls[c].pc = "awaitVariables"
  /\ \E answer \in VariablesAnswers(calls[c].session) :
       calls' = [calls EXCEPT ![c] =
         IF answer.ok
         THEN [calls[c] EXCEPT !.pc = "returned", !.result = answer.variables]
         ELSE [calls[c] EXCEPT !.pc = "failed", !.error = answer.error]]
  /\ UNCHANGED <<active, sessionRegistry, debuggee, armed, requests, instances, lastEvent, ended, lifecycle>>

VariablesResourceStep(c) ==
  \/ \E text \in Texts : VariablesResourceStart(c, text)
  \/ VariablesResourceScopesSettle(c)
  \/ VariablesResourceVariablesSettle(c)

ResourceNext ==
  \/ HostEvent
  \/ \E c \in Calls : VariablesResourceStep(c)
  \/ \E c \in Calls : CallFinish(c)

ResourceSpec == Init /\ [][ResourceNext]_vars

\* ---------------------------------------------------------------- evaluate_expr

\* The arguments a caller may give evaluate_expr; expr is required.
EvaluateArgs ==
  {[NoArgs EXCEPT !.expression = Some(Str("e")), !.frameId = f, !.threadId = t] :
      f \in {Undefined, Some(Num(9)), Some(Num(0))}, t \in {Undefined, Some(Num(2))}}
    \cup {[NoArgs EXCEPT !.expression = Some(Str("e")), !.context = Some(Str(x))] : x \in {"repl", "shell"}}
    \cup {NoArgs}

ZContext(x) == ZEnum(x, {"watch", "repl", "hover", "clipboard"})

\* inputSchema of evaluate_expr
EvaluateSchemaOk(sessionId, args) ==
  /\ SessionIdSchemaOk(sessionId)
  /\ (Given(args.expression) /\ ZString(args.expression[1]))
  /\ (Given(args.frameId) => ZPositiveInt(args.frameId[1]))
  /\ (Given(args.context) => ZContext(args.context[1]))
  /\ (Given(args.threadId) => ZPositiveInt(args.threadId[1]))

\* !resolvedFrameId
Falsy(number) == number = Undefined \/ (number[1].int /\ number[1].v = 0)

\* dap.evaluate: expression, frameId, context
EvaluateParams(args, resolvedFrameId) ==
  [NoArgs EXCEPT !.expression = args.expression, !.frameId = resolvedFrameId, !.context = args.context]

TopFrameIdOrFirst(frames) == IF Len(frames) > 0 THEN Some(Num(frames[1])) ELSE Some(Num(1))

\* frames[0]?.id
TopFrameId(frames) == IF Len(frames) > 0 THEN Some(Num(frames[1])) ELSE Undefined

\* What session.customRequest('evaluate') of session s settles with now.
EvaluateAnswers(s) ==
  CASE debuggee[s] = "running" -> {[ok |-> FALSE, result |-> <<>>, error |-> e] : e \in NotStoppedErrors}
    [] debuggee[s] \in {"stopped", "stoppedNoFrames"} -> {[ok |-> TRUE, result |-> <<"r">>, error |-> NoError]}
    [] OTHER -> {[ok |-> FALSE, result |-> <<>>, error |-> e] : e \in OtherErrors}

\* evaluate_expr is invoked: with a frame id it evaluates at once, without
\* one it first fetches the top frame.
EvaluateStart(c, sessionId, args) ==
  /\ calls[c].pc = "idle"
  /\ LET call == [IdleCall EXCEPT !.kind = "evaluate_expr", !.sessionId = sessionId, !.args = args]
     IN  calls' = [calls EXCEPT ![c] =
           IF ~EvaluateSchemaOk(sessionId, args)
           THEN [call EXCEPT !.pc = "failed", !.error = InvalidArguments]
           ELSE IF Falsy(args.frameId)
           THEN BridgeSend(call, "stackTrace",
                  StackParams([NoArgs EXCEPT !.threadId = args.threadId, !.startFrame = Some(Num(0)),
                                             !.levels = Some(Num(1))]),
                  "awaitEvaluateStack")
           ELSE BridgeSend(call, "evaluate", EvaluateParams(args, args.frameId), "awaitEvaluate")]
  /\ UNCHANGED <<active, sessionRegistry, debuggee, armed, requests, instances, lastEvent, ended, lifecycle>>

\* The stack fetch of evaluate_expr settles: dap.evaluate with the top frame.
EvaluateStackSettle(c) ==
  /\ calls[c].kind = "evaluate_expr" /\ calls[c].pc = "awaitEvaluateStack"
  /\ \E answer \in StackTraceAnswers(calls[c].session) :
       calls' = [calls EXCEPT ![c] =
         IF ~answer.ok
         THEN [Answered(calls[c]) EXCEPT !.pc = "failed", !.error = answer.error, !.lastFetch = "failed"]
         ELSE [BridgeSend(Answered(calls[c]), "evaluate",
                          EvaluateParams(calls[c].args, TopFrameId(answer.frames)), "awaitEvaluate")
                 EXCEPT !.lastFetch = IF Len(answer.frames) > 0 THEN "frame" ELSE "empty",
                        !.fetched = answer.frames]]
  /\ UNCHANGED <<active, sessionRegistry, debuggee, armed, requests, instances, lastEvent, ended, lifecycle>>

EvaluateSettle(c) ==
  /\ calls[c].kind = "evaluate_expr" /\ calls[c].pc = "awaitEvaluate"
  /\ \E answer \in EvaluateAnswers(calls[c].session) :
       calls' = [calls EXCEPT ![c] =
         IF answer.ok
         THEN [Answered(calls[c]) EXCEPT !.pc = "returned", !.result = answer.result]
         ELSE [Answered(calls[c]) EXCEPT !.pc = "failed", !.error = answer.error]]
  /\ UNCHANGED <<active, sessionRegistry, debuggee, armed, requests, instances, lastEvent, ended, lifecycle>>

EvaluateStep(c) ==
  \/ \E sessionId \in SessionIdInputs, args \in EvaluateArgs : EvaluateStart(c, sessionId, args)
  \/ EvaluateStackSettle(c)
  \/ EvaluateSettle(c)

EvaluateNext ==
  \/ HostEvent
  \/ \E c \in Calls : EvaluateStep(c)
  \/ \E c \in Calls : CallFinish(c)

EvaluateSpec == Init /\ [][EvaluateNext]_vars

\* ---------------------------------------------------------------- snapshot

\* The arguments a caller may give snapshot; the last one breaks the schema.
SnapshotArgs ==
  {[NoArgs EXCEPT !.includeExpensive = e, !.maxVariables = m] :
      e \in {Undefined, Some(Bool(TRUE)), Some(Bool(FALSE))}, m \in {Undefined, Some(Num(10))}}
    \cup {[NoArgs EXCEPT !.threadId = Some(Num(2))], [NoArgs EXCEPT !.maxVariables = Some(Num(0))]}

\* inputSchema of snapshot
SnapshotSchemaOk(sessionId, args) ==
  /\ SessionIdSchemaOk(sessionId)
  /\ (Given(args.threadId) => ZPositiveInt(args.threadId[1]))
  /\ (Given(args.includeExpensive) => ZBoolean(args.includeExpensive[1]))
  /\ (Given(args.maxVariables) => ZPositiveInt(args.maxVariables[1]))

SnapshotFrameOrFirst(frames) == IF Len(frames) > 0 THEN Some(frames[1]) ELSE Some(1)

\* const frame = frames[0]
SnapshotFrame(frames) == IF Len(frames) > 0 THEN Some(frames[1]) ELSE Undefined

SkippedWhenNotGiven(scope, includeExpensive) == scope.expensive /\ includeExpensive = Undefined

\* scope.expensive && !includeExpensive
Skipped(scope, includeExpensive) ==
  scope.expensive /\ (includeExpensive = Undefined \/ includeExpensive[1].v = 0)

\* The next scope of the for loop, after position from, that is not
\* skipped; 0 when the loop is over.
NextScope(scopes, from, includeExpensive) ==
  LET rest == {i \in (from + 1)..Len(scopes) : ~Skipped(scopes[i], includeExpensive)}
  IN  IF rest = {} THEN 0 ELSE CHOOSE i \in rest : \A j \in rest : i <= j

SnapshotLoopAllAtOnce(call, from) ==
  LET r == GetSession(call.sessionId)
      rest == SelectSeq([i \in 1..Len(call.scopes) |-> i],
                        LAMBDA i : i > from /\ ~Skipped(call.scopes[i], call.args.includeExpensive))
  IN  IF rest = <<>>
      THEN [call EXCEPT !.pc = "returned", !.result = call.scopedVariables]
      ELSE IF ~r.ok
      THEN [call EXCEPT !.pc = "failed", !.error = r.error]
      ELSE [call EXCEPT !.pc = "awaitSnapshotVariables", !.session = r.session,
                        !.rpcs = call.rpcs + Len(rest), !.cursor = rest[1],
                        !.sent = call.sent \o
                          [k \in 1..Len(rest) |->
                             Rpc("variables", r.session,
                                 VariablesParams([NoArgs EXCEPT
                                    !.variablesReference = Some(Num(call.scopes[rest[k]].variablesReference)),
                                    !.count = call.args.maxVariables]))]]

\* The for loop from position from up to its next await, or to the return.
SnapshotLoop(call, from) ==
  LET i == NextScope(call.scopes, from, call.args.includeExpensive)
  IN  IF i = 0
      THEN [call EXCEPT !.pc = "returned", !.result = call.scopedVariables]
      ELSE [BridgeSend(call, "variables",
                       VariablesParams([NoArgs EXCEPT
                          !.variablesReference = Some(Num(call.scopes[i].variablesReference)),
                          !.count = call.args.maxVariables]),
                       "awaitSnapshotVariables")
              EXCEPT !.cursor = i]

\* snapshot is invoked: the schema, then dap.stack for the top frame.
SnapshotStart(c, sessionId, args) ==
  /\ calls[c].pc = "idle"
  /\ LET call == [IdleCall EXCEPT !.kind = "snapshot", !.sessionId = sessionId, !.args = args]
     IN  calls' = [calls EXCEPT ![c] =
           IF ~SnapshotSchemaOk(sessionId, args)
           THEN [call EXCEPT !.pc = "failed", !.error = InvalidArguments]
           ELSE BridgeSend(call, "stackTrace",
                  StackParams([NoArgs EXCEPT !.threadId = args.threadId, !.startFrame = Some(Num(0)),
                                             !.levels = Some(Num(1))]),
                  "awaitSnapshotStack")]
  /\ UNCHANGED <<active, sessionRegistry, debuggee, armed, requests, instances, lastEvent, ended, lifecycle>>

\* The stack fetch settles: without a frame {frame: null, scopes: []} is
\* returned, with one dap.scopes is called for it.
SnapshotStackSettle(c) ==
  /\ calls[c].kind = "snapshot" /\ calls[c].pc = "awaitSnapshotStack"
  /\ \E answer \in StackTraceAnswers(calls[c].session) :
       calls' = [calls EXCEPT ![c] =
         IF ~answer.ok
         THEN [Answered(calls[c]) EXCEPT !.pc = "failed", !.error = answer.error, !.lastFetch = "failed"]
         ELSE LET frame == SnapshotFrame(answer.frames)
                  call == [Answered(calls[c]) EXCEPT !.fetched = answer.frames,
                             !.lastFetch = IF Len(answer.frames) > 0 THEN "frame" ELSE "empty"]
              IN  IF frame = Undefined
                  THEN [call EXCEPT !.pc = "returned", !.frame = Undefined, !.result = <<>>]
                  ELSE BridgeSend([call EXCEPT !.frame = frame, !.minted = ended[calls[c].session]],
                                  "scopes", ScopesParams(Num(frame[1])), "awaitSnapshotScopes")]
  /\ UNCHANGED <<active, sessionRegistry, debuggee, armed, requests, instances, lastEvent, ended, lifecycle>>

\* dap.scopes settles: the loop over the scopes starts.
SnapshotScopesSettle(c) ==
  /\ calls[c].kind = "snapshot" /\ calls[c].pc = "awaitSnapshotScopes"
  /\ \E answer \in ScopesAnswers(calls[c].session) :
       calls' = [calls EXCEPT ![c] =
         IF ~answer.ok
         THEN [Answered(calls[c]) EXCEPT !.pc = "failed", !.error = answer.error]
         ELSE SnapshotLoop([Answered(calls[c]) EXCEPT !.scopes = answer.scopes, !.cursor = 0,
                                                      !.minted = ended[calls[c].session]], 0)]
  /\ UNCHANGED <<active, sessionRegistry, debuggee, armed, requests, instances, lastEvent, ended, lifecycle>>

\* dap.variables of one scope settles: the pair is pushed, the loop goes on.
SnapshotVariablesSettle(c) ==
  /\ calls[c].kind = "snapshot" /\ calls[c].pc = "awaitSnapshotVariables"
  /\ \E answer \in VariablesAnswers(calls[c].session) :
       calls' = [calls EXCEPT ![c] =
         IF ~answer.ok
         THEN [Answered(calls[c]) EXCEPT !.pc = "failed", !.error = answer.error]
         ELSE SnapshotLoop(
                [Answered(calls[c]) EXCEPT !.scopedVariables =
                   Append(@, [scope |-> calls[c].scopes[calls[c].cursor], variables |-> answer.variables])],
                calls[c].cursor)]
  /\ UNCHANGED <<active, sessionRegistry, debuggee, armed, requests, instances, lastEvent, ended, lifecycle>>

SnapshotStep(c) ==
  \/ \E sessionId \in SessionIdInputs, args \in SnapshotArgs : SnapshotStart(c, sessionId, args)
  \/ SnapshotStackSettle(c)
  \/ SnapshotScopesSettle(c)
  \/ SnapshotVariablesSettle(c)

SnapshotNext ==
  \/ HostEvent
  \/ \E c \in Calls : SnapshotStep(c)
  \/ \E c \in Calls : CallFinish(c)

SnapshotSpec == Init /\ [][SnapshotNext]_vars

\* ---------------------------------------------------------------- threads, scopes, Call Stack

\* The threads tool is invoked.
ThreadsToolStart(c, sessionId) ==
  /\ calls[c].pc = "idle"
  /\ LET call == [IdleCall EXCEPT !.kind = "threads", !.sessionId = sessionId]
     IN  calls' = [calls EXCEPT ![c] =
           IF ~SessionIdSchemaOk(sessionId)
           THEN [call EXCEPT !.pc = "failed", !.error = InvalidArguments]
           ELSE BridgeSend(call, "threads", NoArgs, "awaitThreadsTool")]
  /\ UNCHANGED <<active, sessionRegistry, debuggee, armed, requests, instances, lastEvent, ended, lifecycle>>

\* dap.threads settles: the list, [] for an answer without one, or the
\* rejection.
ThreadsToolSettle(c, answer, error) ==
  /\ calls[c].kind = "threads" /\ calls[c].pc = "awaitThreadsTool"
  /\ calls' = [calls EXCEPT ![c] =
       IF answer.ok
       THEN [calls[c] EXCEPT !.pc = "returned",
                             !.result = IF answer.hasList THEN answer.threads ELSE <<>>]
       ELSE [calls[c] EXCEPT !.pc = "failed", !.error = error]]
  /\ UNCHANGED <<active, sessionRegistry, debuggee, armed, requests, instances, lastEvent, ended, lifecycle>>

\* The arguments a caller may give the scopes tool; frameId is required.
ScopesArgs == {[NoArgs EXCEPT !.frameId = Some(Num(7))], [NoArgs EXCEPT !.frameId = Some(Num(0))], NoArgs}

\* inputSchema of scopes
ScopesSchemaOk(sessionId, args) ==
  /\ SessionIdSchemaOk(sessionId)
  /\ (Given(args.frameId) /\ ZPositiveInt(args.frameId[1]))

\* The scopes tool is invoked.
ScopesToolStart(c, sessionId, args) ==
  /\ calls[c].pc = "idle"
  /\ LET call == [IdleCall EXCEPT !.kind = "scopes", !.sessionId = sessionId, !.args = args]
     IN  calls' = [calls EXCEPT ![c] =
           IF ~ScopesSchemaOk(sessionId, args)
           THEN [call EXCEPT !.pc = "failed", !.error = InvalidArguments]
           ELSE BridgeSend(call, "scopes", ScopesParams(args.frameId[1]), "awaitScopesTool")]
  /\ UNCHANGED <<active, sessionRegistry, debuggee, armed, requests, instances, lastEvent, ended, lifecycle>>

ScopesToolSettle(c) ==
  /\ calls[c].kind = "scopes" /\ calls[c].pc = "awaitScopesTool"
  /\ \E answer \in ScopesAnswers(calls[c].session) :
       calls' = [calls EXCEPT ![c] =
         IF answer.ok
         THEN [calls[c] EXCEPT !.pc = "returned", !.result = answer.scopes]
         ELSE [calls[c] EXCEPT !.pc = "failed", !.error = answer.error]]
  /\ UNCHANGED <<active, sessionRegistry, debuggee, armed, requests, instances, lastEvent, ended, lifecycle>>

\* xdebug://stack is read: dap.stack({ threadId: 1 }) on the active session.
StackResourceStart(c) ==
  /\ calls[c].pc = "idle"
  /\ calls' = [calls EXCEPT ![c] =
       BridgeSend([IdleCall EXCEPT !.kind = "stack_resource"], "stackTrace",
                  StackParams([NoArgs EXCEPT !.threadId = Some(Num(1))]), "awaitStackResource")]
  /\ UNCHANGED <<active, sessionRegistry, debuggee, armed, requests, instances, lastEvent, ended, lifecycle>>

StackResourceSettle(c) ==
  /\ calls[c].kind = "stack_resource" /\ calls[c].pc = "awaitStackResource"
  /\ \E answer \in StackTraceAnswers(calls[c].session) :
       calls' = [calls EXCEPT ![c] =
         IF answer.ok
         THEN [calls[c] EXCEPT !.pc = "returned", !.result = answer.frames]
         ELSE [calls[c] EXCEPT !.pc = "failed", !.error = answer.error]]
  /\ UNCHANGED <<active, sessionRegistry, debuggee, armed, requests, instances, lastEvent, ended, lifecycle>>

\* ---------------------------------------------------------------- execution control

\* The execution-control tools and the request each one sends.
SteppingTools == {"continue", "pause", "step_over", "step_in", "step_out"}
ControlTools == SteppingTools \cup {"restart", "terminate", "disconnect"}

ControlCommand(tool) ==
  CASE tool = "step_over" -> "next"
    [] tool = "step_in" -> "stepIn"
    [] tool = "step_out" -> "stepOut"
    [] OTHER -> tool

\* The arguments a caller may give an execution-control tool.
ControlArgs(tool) ==
  CASE tool \in SteppingTools ->
         {NoArgs, [NoArgs EXCEPT !.threadId = Some(Num(2))], [NoArgs EXCEPT !.threadId = Some(Num(0))]}
    [] tool = "restart" -> {NoArgs}
    [] tool = "terminate" -> {NoArgs, [NoArgs EXCEPT !.restart = Some(Bool(TRUE))]}
    [] OTHER -> {NoArgs, [NoArgs EXCEPT !.terminateDebuggee = Some(Bool(TRUE))],
                 [NoArgs EXCEPT !.suspendDebuggee = Some(Num(1))]}

\* inputSchema of the execution-control tools
ControlSchemaOk(tool, sessionId, args) ==
  /\ SessionIdSchemaOk(sessionId)
  /\ tool \in SteppingTools => (Given(args.threadId) => ZPositiveInt(args.threadId[1]))
  /\ tool \in {"terminate", "disconnect"} => (Given(args.restart) => ZBoolean(args.restart[1]))
  /\ tool = "disconnect" =>
       /\ (Given(args.terminateDebuggee) => ZBoolean(args.terminateDebuggee[1]))
       /\ (Given(args.suspendDebuggee) => ZBoolean(args.suspendDebuggee[1]))

ControlParamsAsGiven(tool, args) ==
  CASE tool \in SteppingTools -> [NoArgs EXCEPT !.threadId = args.threadId]
    [] tool = "restart" -> NoArgs
    [] tool = "terminate" -> [NoArgs EXCEPT !.restart = args.restart]
    [] OTHER -> [NoArgs EXCEPT !.terminateDebuggee = args.terminateDebuggee, !.restart = args.restart,
                               !.suspendDebuggee = args.suspendDebuggee]

\* { content: [{ type: 'text', text: 'ok' }] }
okResult == <<"ok">>

\* cont / next / stepIn / stepOut / pause: threadId ?? 1; restart: nothing;
\* terminate: restart; disconnect: terminateDebuggee, restart, suspendDebuggee
ControlParams(tool, args) ==
  CASE tool \in SteppingTools -> [NoArgs EXCEPT !.threadId = Coalesce(args.threadId, Num(1))]
    [] tool = "restart" -> NoArgs
    [] tool = "terminate" -> [NoArgs EXCEPT !.restart = args.restart]
    [] OTHER -> [NoArgs EXCEPT !.terminateDebuggee = args.terminateDebuggee, !.restart = args.restart,
                               !.suspendDebuggee = args.suspendDebuggee]

\* What an execution-control request to session s settles with now.
ControlAnswers(s) ==
  CASE debuggee[s] = "running" ->
         {[ok |-> TRUE, error |-> NoError]} \cup {[ok |-> FALSE, error |-> e] : e \in NotStoppedErrors}
    [] debuggee[s] \in {"stopped", "stoppedNoFrames"} -> {[ok |-> TRUE, error |-> NoError]}
    [] OTHER -> {[ok |-> FALSE, error |-> e] : e \in OtherErrors}

\* An execution-control tool is invoked.
ControlStart(c, tool, sessionId, args) ==
  /\ calls[c].pc = "idle"
  /\ LET call == [IdleCall EXCEPT !.kind = tool, !.sessionId = sessionId, !.args = args]
     IN  calls' = [calls EXCEPT ![c] =
           IF ~ControlSchemaOk(tool, sessionId, args)
           THEN [call EXCEPT !.pc = "failed", !.error = InvalidArguments]
           ELSE BridgeSend(call, ControlCommand(tool), ControlParams(tool, args), "awaitControl")]
  /\ UNCHANGED <<active, sessionRegistry, debuggee, armed, requests, instances, lastEvent, ended, lifecycle>>

\* The request settles: okResult(), or the rejection.
ControlSettle(c) ==
  /\ calls[c].kind \in ControlTools /\ calls[c].pc = "awaitControl"
  /\ \E answer \in ControlAnswers(calls[c].session) :
       calls' = [calls EXCEPT ![c] =
         IF answer.ok
         THEN [Answered(calls[c]) EXCEPT !.pc = "returned", !.result = okResult]
         ELSE [Answered(calls[c]) EXCEPT !.pc = "failed", !.error = answer.error]]
  /\ UNCHANGED <<active, sessionRegistry, debuggee, armed, requests, instances, lastEvent, ended, lifecycle>>

ControlStep(c) ==
  \/ \E tool \in ControlTools, sessionId \in SessionIdInputs :
       \E args \in ControlArgs(tool) : ControlStart(c, tool, sessionId, args)
  \/ ControlSettle(c)

ControlNext ==
  \/ HostEvent
  \/ \E c \in Calls : ControlStep(c)
  \/ \E c \in Calls : CallFinish(c)

ControlSpec == Init /\ [][ControlNext]_vars

\* ---------------------------------------------------------------- function and exception breakpoints

\* The lists a caller may give; the last of each breaks the schema
\* (name / filter: z.string().min(1)).
FunctionBreakpointLists == {<<>>, <<Str("f")>>, <<Str("")>>}
ExceptionFilterLists == {<<>>, <<Str("Notice")>>, <<Str("")>>}

\* z.array(z.string().min(1)), and the same test on the names of an array
\* of objects
ZNonEmptyStrings(list) == \A i \in 1..Len(list) : ZString(list[i]) /\ ZMin1(list[i])

\* What setFunctionBreakpoints / setExceptionBreakpoints of session s settles
\* with now: the response may come without a breakpoints array.
BreakpointUpdatesAnswers(s) ==
  IF debuggee[s] = "broken"
  THEN {[ok |-> FALSE, hasList |-> FALSE, error |-> e] : e \in OtherErrors}
  ELSE {[ok |-> TRUE, hasList |-> h, error |-> NoError] : h \in BOOLEAN}
         \cup {[ok |-> FALSE, hasList |-> FALSE, error |-> e] : e \in NotStoppedErrors}

\* set_function_breakpoints is invoked.
SetFunctionBreakpointsStart(c, sessionId, breakpoints) ==
  /\ calls[c].pc = "idle"
  /\ LET args == [NoArgs EXCEPT !.breakpoints = Some(breakpoints)]
         call == [IdleCall EXCEPT !.kind = "set_function_breakpoints", !.sessionId = sessionId,
                                  !.args = args]
     IN  calls' = [calls EXCEPT ![c] =
           IF ~SessionIdSchemaOk(sessionId) \/ ~ZNonEmptyStrings(breakpoints)
           THEN [call EXCEPT !.pc = "failed", !.error = InvalidArguments]
           ELSE BridgeSend(call, "setFunctionBreakpoints", args, "awaitBreakpointUpdates")]
  /\ UNCHANGED <<active, sessionRegistry, debuggee, armed, requests, instances, lastEvent, ended, lifecycle>>

\* set_exception_breakpoints is invoked.
SetExceptionBreakpointsStart(c, sessionId, filters) ==
  /\ calls[c].pc = "idle"
  /\ LET args == [NoArgs EXCEPT !.filters = Some(filters)]
         call == [IdleCall EXCEPT !.kind = "set_exception_breakpoints", !.sessionId = sessionId,
                                  !.args = args]
     IN  calls' = [calls EXCEPT ![c] =
           IF ~SessionIdSchemaOk(sessionId) \/ ~ZNonEmptyStrings(filters)
           THEN [call EXCEPT !.pc = "failed", !.error = InvalidArguments]
           ELSE BridgeSend(call, "setExceptionBreakpoints", args, "awaitBreakpointUpdates")]
  /\ UNCHANGED <<active, sessionRegistry, debuggee, armed, requests, instances, lastEvent, ended, lifecycle>>

\* The request settles: one update per entry, [] for a response without
\* the array, or the rejection.
BreakpointUpdatesSettle(c) ==
  /\ calls[c].kind \in {"set_function_breakpoints", "set_exception_breakpoints"}
  /\ calls[c].pc = "awaitBreakpointUpdates"
  /\ \E answer \in BreakpointUpdatesAnswers(calls[c].session) :
       calls' = [calls EXCEPT ![c] =
         IF answer.ok
         THEN [calls[c] EXCEPT !.pc = "returned",
                 !.results = IF answer.hasList
                             THEN LET given == IF calls[c].kind = "set_function_breakpoints"
                                               THEN calls[c].args.breakpoints[1]
                                               ELSE calls[c].args.filters[1]
                                  IN  [i \in 1..Len(given) |-> [verified |-> TRUE]]
                             ELSE <<>>]
         ELSE [calls[c] EXCEPT !.pc = "failed", !.error = answer.error]]
  /\ UNCHANGED <<active, sessionRegistry, debuggee, armed, requests, instances, lastEvent, ended, lifecycle>>

\* ---------------------------------------------------------------- inspection tools, together

InspectStep(c) ==
  \/ \E sessionId \in SessionIdInputs, args \in StackArgs : StackToolStart(c, sessionId, args)
  \/ StackToolSettle(c)
  \/ \E sessionId \in SessionIdInputs, args \in VariablesArgs : VariablesToolStart(c, sessionId, args)
  \/ VariablesToolSettle(c)

InspectNext ==
  \/ HostEvent
  \/ \E c \in Calls : InspectStep(c)
  \/ \E c \in Calls : CallFinish(c)

InspectSpec == Init /\ [][InspectNext]_vars

\* ---------------------------------------------------------------- all tools and resources

\* The sessionId-taking tools and the two resources, each with a few of its
\* inputs, against the events of the host.
ToolsStart(c) ==
  \/ \E sessionId \in SessionIdInputs : StatusStart(c, sessionId)
  \/ \E sessionId \in SessionIdInputs : WfsStart(c, sessionId)
  \/ \E sessionId \in SessionIdInputs : ThreadsToolStart(c, sessionId)
  \/ \E sessionId \in SessionIdInputs : StackToolStart(c, sessionId, NoArgs)
  \/ \E sessionId \in SessionIdInputs, args \in ScopesArgs : ScopesToolStart(c, sessionId, args)
  \/ \E sessionId \in SessionIdInputs :
       VariablesToolStart(c, sessionId, [NoArgs EXCEPT !.variablesReference = Some(Num(3))])
  \/ \E sessionId \in SessionIdInputs :
       \E args \in {NoArgs, [NoArgs EXCEPT !.includeExpensive = Some(Bool(TRUE))]} :
         SnapshotStart(c, sessionId, args)
  \/ \E sessionId \in SessionIdInputs :
       \E args \in {[NoArgs EXCEPT !.expression = Some(Str("e")), !.frameId = f] :
                       f \in {Undefined, Some(Num(9))}} :
         EvaluateStart(c, sessionId, args)
  \/ \E tool \in ControlTools, sessionId \in SessionIdInputs :
       \E args \in ControlArgs(tool) : ControlStart(c, tool, sessionId, args)
  \/ \E sessionId \in SessionIdInputs : SetBreakpointStart(c, sessionId, "a.php", <<>>)
  \/ \E sessionId \in SessionIdInputs : ClearBreakpointsStart(c, sessionId, "a.php")
  \/ \E sessionId \in SessionIdInputs, breakpoints \in FunctionBreakpointLists :
       SetFunctionBreakpointsStart(c, sessionId, breakpoints)
  \/ \E sessionId \in SessionIdInputs, filters \in ExceptionFilterLists :
       SetExceptionBreakpointsStart(c, sessionId, filters)
  \/ StackResourceStart(c)
  \/ \E text \in {<<"7">>, <<"a">>} : VariablesResourceStart(c, text)

ToolsSettle(c) ==
  \/ \E answer \in ThreadsAnswers : StatusThreadsSettle(c, answer)
  \/ StatusProbeSettle(c)
  \/ WfsStackSettle(c)
  \/ WfsTimerFires(c)
  \/ \E answer \in ThreadsAnswers, error \in OtherErrors \cup NotStoppedErrors :
       ThreadsToolSettle(c, answer, error)
  \/ StackToolSettle(c)
  \/ ScopesToolSettle(c)
  \/ VariablesToolSettle(c)
  \/ SnapshotStackSettle(c)
  \/ SnapshotScopesSettle(c)
  \/ SnapshotVariablesSettle(c)
  \/ EvaluateStackSettle(c)
  \/ EvaluateSettle(c)
  \/ ControlSettle(c)
  \/ \E kind \in ReportKinds : BreakpointsAccepted(c, kind)
  \/ \E error \in OtherErrors \cup NotStoppedErrors : BreakpointsRejected(c, error)
  \/ BreakpointUpdatesSettle(c)
  \/ StackResourceSettle(c)
  \/ VariablesResourceScopesSettle(c)
  \/ VariablesResourceVariablesSettle(c)

ToolsNext ==
  \/ HostEvent
  \/ \E c \in Calls : ToolsStart(c)
  \/ \E c \in Calls : ToolsSettle(c)
  \/ \E c \in Calls : CallFinish(c)

ToolsSpec == Init /\ [][ToolsNext]_vars

\* ---------------------------------------------------------------- HTTP body

\* What readJsonBody rejects with.
ReadError(code, message) == [code |-> code, message |-> message]
PayloadTooLarge == ReadError("PAYLOAD_TOO_LARGE", "Payload too large")
EmptyRequestBody == ReadError("", "Empty request body")
SyntaxError == ReadError("", "Unexpected token")
RequestError == ReadError("ECONNRESET", "aborted")

\* try { server.connect(transport); transport.handleRequest(req, res, parsedBody) }
Dispatch(http) == [http EXCEPT !.connected = TRUE, !.dispatched = TRUE]

AnswerReadErrorFallingThrough(http, error) ==
  Dispatch([http EXCEPT !.statusCode = IF error.code = "PAYLOAD_TOO_LARGE" THEN 413 ELSE 400])

AnswerReadErrorAlwaysParseError(http, error) ==
  [http EXCEPT !.statusCode = 400,
               !.envelope = [jsonrpc |-> "2.0", code |-> -32700, message |-> "Parse error",
                             data |-> Some(error.message), id |-> "null"]]

\* catch of readJsonBody: the JSON-RPC shaped answer, and return.
AnswerReadError(http, error) ==
  LET status == IF error.code = "PAYLOAD_TOO_LARGE" THEN 413 ELSE 400
  IN  [http EXCEPT !.statusCode = status,
                   !.envelope = [jsonrpc |-> "2.0", code |-> -32700,
                                 message |-> IF status = 413 THEN "Payload too large" ELSE "Parse error",
                                 data |-> Some(error.message), id |-> "null"]]

OverCeilingInclusive(size) == size >= MAX_BODY_BYTES

\* size > MAX_BODY_BYTES
OverCeiling(size) == size > MAX_BODY_BYTES

\* req.on('data'): the chunk is counted, and kept unless the ceiling is passed.
OnData(http, length) ==
  LET size == http.size + length
  IN  IF OverCeiling(size)
      THEN AnswerReadError([http EXCEPT !.size = size, !.destroyed = TRUE], PayloadTooLarge)
      ELSE [http EXCEPT !.size = size, !.chunks = http.chunks + 1]

OnEndForwardingAll(http) == Dispatch([http EXCEPT !.parseAttempted = TRUE])

\* req.on('end'): no chunk is an empty body; otherwise JSON.parse.
OnEnd(http) ==
  IF http.chunks = 0
  THEN AnswerReadError(http, EmptyRequestBody)
  ELSE IF ~http.wellFormed
  THEN AnswerReadError([http EXCEPT !.parseAttempted = TRUE], SyntaxError)
  ELSE Dispatch([http EXCEPT !.parseAttempted = TRUE])

\* A request arrives: 404 off /mcp; a POST has its body read; any other
\* method goes to dispatch with no body.
\* !value of a header: it is absent or the empty string
NoValue(value) == value = Undefined \/ value[1] = <<>>

\* value.includes(needle)
HeaderIncludes(value, needle) == Includes(value[1], <<needle>>)

\* The Accept / Content-Type normalization of the request handler.
NormalizeHeaders(method, headers) ==
  IF method = "POST"
  THEN [accept |->
          IF NoValue(headers.accept) \/ ~HeaderIncludes(headers.accept, "application/json")
               \/ ~HeaderIncludes(headers.accept, "text/event-stream")
          THEN Some(<<"application/json", ", ", "text/event-stream">>)
          ELSE headers.accept,
        contentType |->
          IF NoValue(headers.contentType) THEN Some(<<"application/json">>) ELSE headers.contentType]
  ELSE IF method = "GET"
  THEN [headers EXCEPT !.accept =
          IF NoValue(headers.accept) \/ ~HeaderIncludes(headers.accept, "text/event-stream")
          THEN Some(<<"text/event-stream">>)
          ELSE headers.accept]
  ELSE headers

\* A request arrives: the path test, makeServer and the transport, the
\* headers, then the body of a POST or the dispatch of anything else.
HttpRequest(c, method, pathname, headers, body, wellFormed) ==
  /\ calls[c].pc = "idle"
  /\ LET http == [NoHttp EXCEPT !.method = method, !.pathname = pathname,
                                !.given = headers,
                                !.headers = IF pathname # "/mcp" THEN headers
                                            ELSE NormalizeHeaders(method, headers),
                                !.body = body, !.wellFormed = wellFormed]
         call == [IdleCall EXCEPT !.kind = "http"]
     IN  calls' = [calls EXCEPT ![c] =
           IF pathname # "/mcp"
           THEN [call EXCEPT !.pc = "failed", !.http = [http EXCEPT !.statusCode = 404]]
           ELSE IF method = "POST"
           THEN [call EXCEPT !.pc = "reading", !.http = [http EXCEPT !.madeServer = TRUE]]
           ELSE [call EXCEPT !.pc = "returned", !.http = Dispatch([http EXCEPT !.madeServer = TRUE])]]
  /\ UNCHANGED <<active, sessionRegistry, debuggee, armed, requests, instances, lastEvent, ended, lifecycle>>

\* The next chunk of the body is delivered.
HttpData(c) ==
  /\ calls[c].kind = "http" /\ calls[c].pc = "reading"
  /\ calls[c].http.arrived < Len(calls[c].http.body)
  /\ LET http == [calls[c].http EXCEPT !.arrived = calls[c].http.arrived + 1]
         after == OnData(http, http.body[http.arrived])
     IN  calls' = [calls EXCEPT ![c].http = after,
                                ![c].pc = IF after.statusCode # 0 THEN "failed" ELSE "reading"]
  /\ UNCHANGED <<active, sessionRegistry, debuggee, armed, requests, instances, lastEvent, ended, lifecycle>>

\* The body is over.
HttpEnd(c) ==
  /\ calls[c].kind = "http" /\ calls[c].pc = "reading"
  /\ calls[c].http.arrived = Len(calls[c].http.body)
  /\ LET after == OnEnd(calls[c].http)
     IN  calls' = [calls EXCEPT ![c].http = after,
                                ![c].pc = IF after.statusCode # 0 THEN "failed" ELSE "returned"]
  /\ UNCHANGED <<active, sessionRegistry, debuggee, armed, requests, instances, lastEvent, ended, lifecycle>>

\* req.on('error', reject): the connection fails while the body is read.
HttpError(c) ==
  /\ calls[c].kind = "http" /\ calls[c].pc = "reading"
  /\ calls' = [calls EXCEPT ![c].http = AnswerReadError([calls[c].http EXCEPT !.transportError = TRUE],
                                                        RequestError),
                            ![c].pc = "failed"]
  /\ UNCHANGED <<active, sessionRegistry, debuggee, armed, requests, instances, lastEvent, ended, lifecycle>>

BodyStep(c) ==
  \/ \E method \in {"POST", "GET"}, pathname \in {"/mcp", "/"}, body \in Bodies, wellFormed \in BOOLEAN :
       /\ wellFormed => ByteLength(body) > 0
       /\ HttpRequest(c, method, pathname, NoHeaders, body, wellFormed)
  \/ HttpData(c)
  \/ HttpEnd(c)
  \/ HttpError(c)

BodyNext ==
  \/ \E c \in Calls : BodyStep(c)
  \/ \E c \in Calls : CallFinish(c)

BodySpec == Init /\ [][BodyNext]_vars

\* Requests to /mcp with every method and header the model has, each POST
\* with a small body of JSON.
HeaderNext ==
  \/ \E c \in Calls, method \in {"POST", "GET", "DELETE"} :
       \E accept \in AcceptValues, contentType \in ContentTypeValues :
         HttpRequest(c, method, "/mcp", [accept |-> accept, contentType |-> contentType], <<1>>, TRUE)
  \/ \E c \in Calls : HttpData(c)
  \/ \E c \in Calls : HttpEnd(c)
  \/ \E c \in Calls : HttpError(c)
  \/ \E c \in Calls : CallFinish(c)

HeaderSpec == Init /\ [][HeaderNext]_vars

\* ---------------------------------------------------------------- request lifecycle

SharedInstance(made) == 1

\* makeServer / new StreamableHTTPServerTransport: objects no one else holds.
FreshInstance(made) == CHOOSE i \in Instances : ~made[i].made /\ \A j \in Instances : ~made[j].made => i <= j

\* A request on /mcp: its own server and transport, and res.on('close').
RequestAccepted(r) ==
  /\ requests[r].pc = "idle"
  /\ \E i \in Instances : ~instances[i].made
  /\ LET i == FreshInstance(instances)
     IN  /\ requests' = [requests EXCEPT ![r] =
               [IdleRequest EXCEPT !.pc = "dispatching", !.instance = i, !.listening = TRUE]]
         /\ instances' = [instances EXCEPT ![i].made = TRUE, ![i].users = instances[i].users \cup {r}]
  /\ UNCHANGED <<active, sessionRegistry, debuggee, armed, calls, lastEvent, ended, lifecycle>>

CloseTransportUnguarded(r) ==
  /\ requests' = [requests EXCEPT ![r].closed = TRUE, ![r].step = "closingTransport",
                                  ![r].signals = requests[r].signals + 1]
  /\ instances' = [instances EXCEPT ![requests[r].instance].transportCloses = CountTo(2, @),
                                    ![requests[r].instance].closers = @ \cup {r}]

\* closeTransport up to its first await, as handleClose starts it.
CloseTransport(r) ==
  IF requests[r].closed
  THEN /\ requests' = [requests EXCEPT ![r].signals = requests[r].signals + 1]
       /\ UNCHANGED instances
  ELSE /\ requests' = [requests EXCEPT ![r].closed = TRUE, ![r].step = "closingTransport",
                                       ![r].signals = requests[r].signals + 1]
       /\ instances' = [instances EXCEPT ![requests[r].instance].transportCloses = CountTo(2, @),
                                         ![requests[r].instance].closers = @ \cup {r}]

\* The response emits 'close': handleClose runs if it is still registered.
CloseSignal(r) ==
  /\ requests[r].pc # "idle" /\ requests[r].signals < MaxSignals
  /\ IF requests[r].listening
     THEN CloseTransport(r)
     ELSE /\ requests' = [requests EXCEPT ![r].signals = requests[r].signals + 1]
          /\ UNCHANGED instances
  /\ UNCHANGED <<active, sessionRegistry, debuggee, armed, calls, lastEvent, ended, lifecycle>>

\* await transport.close().catch(() => undefined), then server.close()
AfterTransportClose(request, ok) ==
  [request EXCEPT !.step = "closingServer", !.transportCloseFailed = ~ok]

TransportCloseSettles(r, ok) ==
  /\ requests[r].step = "closingTransport"
  /\ LET after == AfterTransportClose(requests[r], ok)
     IN  /\ requests' = [requests EXCEPT ![r] = after]
         /\ instances' = IF after.step = "closingServer"
                         THEN [instances EXCEPT ![requests[r].instance].serverCloses = CountTo(2, @),
                                                ![requests[r].instance].closers = @ \cup {r}]
                         ELSE instances
  /\ UNCHANGED <<active, sessionRegistry, debuggee, armed, calls, lastEvent, ended, lifecycle>>

\* await server.close().catch(() => undefined)
ServerCloseSettles(r, ok) ==
  /\ requests[r].step = "closingServer"
  /\ requests' = [requests EXCEPT ![r].step = "done"]
  /\ UNCHANGED <<active, sessionRegistry, debuggee, armed, calls, instances, lastEvent, ended, lifecycle>>

\* The transport writes the head of the response.
HeadersSent(r) ==
  /\ requests[r].pc \in {"dispatching", "returned"} /\ ~requests[r].headersSent
  /\ requests[r].signals = 0
  /\ requests' = [requests EXCEPT ![r].headersSent = TRUE]
  /\ UNCHANGED <<active, sessionRegistry, debuggee, armed, calls, instances, lastEvent, ended, lifecycle>>

CatchAlwaysAnswering(request) ==
  [request EXCEPT !.statusCode = 500, !.errorBody = Some("message"), !.headersSent = TRUE]

\* catch (error) { if (!res.headersSent) { 500, {error: message} } }
Catch(request) ==
  IF ~request.headersSent
  THEN [request EXCEPT !.statusCode = 500, !.errorBody = Some("message"), !.headersSent = TRUE]
  ELSE request

\* finally: res.off('close', handleClose)
Finally(request) == [request EXCEPT !.listening = FALSE, !.pc = "returned"]

\* server.connect or transport.handleRequest throws.
DispatchThrows(r) ==
  /\ requests[r].pc = "dispatching"
  /\ requests' = [requests EXCEPT ![r] =
       Finally(Catch([requests[r] EXCEPT !.threw = TRUE, !.sentAtThrow = requests[r].headersSent]))]
  /\ UNCHANGED <<active, sessionRegistry, debuggee, armed, calls, instances, lastEvent, ended, lifecycle>>

\* transport.handleRequest returns.
DispatchReturns(r) ==
  /\ requests[r].pc = "dispatching"
  /\ requests' = [requests EXCEPT ![r] = Finally(requests[r])]
  /\ UNCHANGED <<active, sessionRegistry, debuggee, armed, calls, instances, lastEvent, ended, lifecycle>>

\* The connection of a handled request is gone: its slot takes the next one.
RequestOver(r) ==
  /\ requests[r].pc = "returned" /\ requests[r].step \in {"none", "done"}
  /\ requests' = [requests EXCEPT ![r] = IdleRequest]
  /\ UNCHANGED <<active, sessionRegistry, debuggee, armed, calls, instances, lastEvent, ended, lifecycle>>

RequestStep(r) ==
  \/ RequestAccepted(r)
  \/ CloseSignal(r)
  \/ \E ok \in BOOLEAN : TransportCloseSettles(r, ok)
  \/ \E ok \in BOOLEAN : ServerCloseSettles(r, ok)
  \/ HeadersSent(r)
  \/ DispatchThrows(r)
  \/ DispatchReturns(r)
  \/ RequestOver(r)

RequestNext == \E r \in Requests : RequestStep(r)

RequestSpec == Init /\ [][RequestNext]_vars

\* ---------------------------------------------------------------- the request handler, every path

\* One request from the path test through the body, beside one from
\* makeServer through dispatch to the close of its response.
HandlerNext ==
  \/ \E c \in Calls, method \in {"POST", "GET"}, pathname \in {"/mcp", "/"} :
       \E body \in {<<>>, <<1>>, <<MAX_BODY_BYTES, 1>>}, wellFormed \in BOOLEAN :
         /\ wellFormed => ByteLength(body) > 0
         /\ HttpRequest(c, method, pathname, NoHeaders, body, wellFormed)
  \/ \E c \in Calls : HttpData(c)
  \/ \E c \in Calls : HttpEnd(c)
  \/ \E c \in Calls : HttpError(c)
  \/ \E c \in Calls : CallFinish(c)
  \/ \E r \in {1} : RequestStep(r)

HandlerSpec == Init /\ [][HandlerNext]_vars

\* ---------------------------------------------------------------- session tracking, observed

\* The three tracking handlers of registerSessionTracking, with the event
\* noted against the session it names.
StartDebugSessionSeen(s) ==
  /\ sessionRegistry' = TrackSession(sessionRegistry, s)
  /\ lastEvent' = [lastEvent EXCEPT ![s] = "start"]
  /\ UNCHANGED <<active, debuggee, armed, calls, requests, instances, ended, lifecycle>>

TerminateDebugSessionSeen(s) ==
  /\ sessionRegistry' = UntrackSession(sessionRegistry, s)
  /\ lastEvent' = [lastEvent EXCEPT ![s] = "terminate"]
  /\ UNCHANGED <<active, debuggee, armed, calls, requests, instances, ended, lifecycle>>

ChangeActiveDebugSessionSeen(s) ==
  /\ active' = s
  /\ sessionRegistry' = IF s # NoSession THEN TrackSession(sessionRegistry, s) ELSE sessionRegistry
  /\ lastEvent' = IF s # NoSession THEN [lastEvent EXCEPT ![s] = "active"] ELSE lastEvent
  /\ UNCHANGED <<debuggee, armed, calls, requests, instances, ended, lifecycle>>

\* The events, and a threads tool that resolves the ids it is given.
RegistryNext ==
  \/ \E s \in Sessions : StartDebugSessionSeen(s)
  \/ \E s \in Sessions : TerminateDebugSessionSeen(s)
  \/ \E s \in Sessions \cup {NoSession} : ChangeActiveDebugSessionSeen(s)
  \/ \E c \in Calls, sessionId \in SessionIdInputs : ThreadsToolStart(c, sessionId)
  \/ \E c \in Calls, answer \in ThreadsAnswers, error \in OtherErrors : ThreadsToolSettle(c, answer, error)
  \/ \E c \in Calls : CallFinish(c)

RegistrySpec == Init /\ [][RegistryNext]_vars

\* The same, with list_sessions among the calls.
RegistryUseNext ==
  \/ RegistryNext
  \/ \E c \in Calls : ListSessions(c)

RegistryUseSpec == Init /\ [][RegistryUseNext]_vars

\* ---------------------------------------------------------------- snapshot beside execution control

\* The tools whose request makes a stopped debuggee leave its stopped state.
ResumingTools == {"continue", "step_over", "step_in", "step_out"}

\* The session carries out the request of a continue or step tool on a
\* stopped debuggee: the stopped state is over, and the tool gets okResult().
ControlSettleResumes(c) ==
  /\ calls[c].kind \in ResumingTools /\ calls[c].pc = "awaitControl"
  /\ debuggee[calls[c].session] \in {"stopped", "stoppedNoFrames"}
  /\ ended[calls[c].session] < MaxEnded
  /\ debuggee' = [debuggee EXCEPT ![calls[c].session] = "running"]
  /\ ended' = [ended EXCEPT ![calls[c].session] = @ + 1]
  /\ calls' = [calls EXCEPT ![c] = [Answered(calls[c]) EXCEPT !.pc = "returned", !.result = okResult]]
  /\ UNCHANGED <<active, sessionRegistry, armed, requests, instances, lastEvent, lifecycle>>

\* One request runs snapshot while another runs a continue or step tool,
\* and the debuggees halt and break as they will.
InterleavedNext ==
  \/ \E s \in Sessions, st \in DebuggeeStates : DebuggeeChanges(s, st)
  \/ \E c \in Calls, sessionId \in {Undefined, Some(<<"s1">>)} :
       \E args \in {NoArgs, [NoArgs EXCEPT !.includeExpensive = Some(Bool(TRUE))]} :
         SnapshotStart(c, sessionId, args)
  \/ \E c \in Calls : SnapshotStackSettle(c)
  \/ \E c \in Calls : SnapshotScopesSettle(c)
  \/ \E c \in Calls : SnapshotVariablesSettle(c)
  \/ \E c \in ConcurrentCalls, tool \in {"continue", "step_over"} :
       ControlStart(c, tool, Undefined, NoArgs)
  \/ \E c \in ConcurrentCalls : ControlSettle(c)
  \/ \E c \in ConcurrentCalls : ControlSettleResumes(c)
  \/ \E c \in Calls \cup ConcurrentCalls : CallFinish(c)

InterleavedSpec == Init /\ [][InterleavedNext]_vars

\* ---------------------------------------------------------------- server start and stop

CachedPromiseIgnored(promise) == NoServer

\* if (serverUriPromise) return serverUriPromise
CachedPromise(promise) == promise

\* The servers that hold the port or are about to.
Live == {k \in Servers : httpServers[k].state \in {"binding", "listening", "closing"}}

\* startHttpServer: the cached promise, or createServer, listen and the
\* promise around it, kept in serverUriPromise and runningServer.
StartHttpServer(i) ==
  /\ startCalls[i].pc = "idle"
  /\ LET cached == CachedPromise(serverUriPromise)
     IN  IF cached # NoServer
         THEN /\ startCalls' = [startCalls EXCEPT ![i] = [IdleStart EXCEPT !.pc = "awaiting", !.server = cached]]
              /\ UNCHANGED <<runningServer, serverUriPromise, httpServers>>
         ELSE /\ \E k \in Servers : httpServers[k].state = "none"
              /\ LET k == CHOOSE n \in Servers :
                            /\ httpServers[n].state = "none"
                            /\ \A m \in Servers : httpServers[m].state = "none" => n <= m
                 IN  /\ httpServers' = [httpServers EXCEPT ![k] = [state |-> "binding", promise |-> "pending"]]
                     /\ serverUriPromise' = k
                     /\ runningServer' = k
                     /\ startCalls' = [startCalls EXCEPT ![i] =
                                         [IdleStart EXCEPT !.pc = "awaiting", !.server = k]]
  /\ UNCHANGED <<active, sessionRegistry, debuggee, armed, calls, requests, instances, lastEvent, ended, stopCalls>>

\* The listen callback: the port is bound, the promise resolves with the URI.
ListenSucceeds(k) ==
  /\ httpServers[k].state = "binding"
  /\ \A m \in Servers : httpServers[m].state # "listening"
  /\ httpServers' = [httpServers EXCEPT ![k] = [state |-> "listening", promise |-> "resolved"]]
  /\ UNCHANGED <<active, sessionRegistry, debuggee, armed, calls, requests, instances, lastEvent, ended,
                 runningServer, serverUriPromise, startCalls, stopCalls>>

\* httpServer.once('error'): serverUriPromise = undefined; reject(err)
ListenFails(k) ==
  /\ httpServers[k].state = "binding"
  /\ httpServers' = [httpServers EXCEPT ![k] = [state |-> "failed", promise |-> "rejected"]]
  /\ serverUriPromise' = NoServer
  /\ UNCHANGED <<active, sessionRegistry, debuggee, armed, calls, requests, instances, lastEvent, ended,
                 runningServer, startCalls, stopCalls>>

\* The promise a call of startHttpServer returned settles for its caller.
StartSettles(i) ==
  /\ startCalls[i].pc = "awaiting"
  /\ httpServers[startCalls[i].server].promise \in {"resolved", "rejected"}
  /\ startCalls' = [startCalls EXCEPT ![i].pc = httpServers[startCalls[i].server].promise]
  /\ UNCHANGED <<active, sessionRegistry, debuggee, armed, calls, requests, instances, lastEvent, ended,
                 runningServer, serverUriPromise, httpServers, stopCalls>>

\* The caller is done with the URI or the error.
StartForgotten(i) ==
  /\ startCalls[i].pc \in {"resolved", "rejected"}
  /\ startCalls' = [startCalls EXCEPT ![i] = IdleStart]
  /\ UNCHANGED <<active, sessionRegistry, debuggee, armed, calls, requests, instances, lastEvent, ended,
                 runningServer, serverUriPromise, httpServers, stopCalls>>

\* stopHttpServer up to its await: nothing to stop, or runningServer.close(),
\* which ends the listening of a server that listens and fails on one that
\* does not.
StopHttpServer(j) ==
  /\ stopCalls[j].pc = "idle"
  /\ startCalls' = [i \in StartCalls |->
                      IF startCalls[i].pc = "idle" THEN startCalls[i]
                      ELSE [startCalls[i] EXCEPT !.stopBegunSince = TRUE, !.stopSince = TRUE]]
  /\ IF runningServer = NoServer
     THEN /\ stopCalls' = [stopCalls EXCEPT ![j].pc = "done"]
          /\ UNCHANGED httpServers
     ELSE IF httpServers[runningServer].state \in {"binding", "listening"}
     THEN /\ httpServers' = [httpServers EXCEPT ![runningServer].state = "closing"]
          /\ stopCalls' = [stopCalls EXCEPT ![j] = [pc |-> "closing", server |-> runningServer]]
     ELSE /\ stopCalls' = [stopCalls EXCEPT ![j] = [pc |-> "rejected", server |-> runningServer]]
          /\ UNCHANGED httpServers
  /\ UNCHANGED <<active, sessionRegistry, debuggee, armed, calls, requests, instances, lastEvent, ended,
                 runningServer, serverUriPromise>>

\* The last connection of the server ends: close calls back, and the call
\* resets runningServer and serverUriPromise.
StopCompletes(j) ==
  /\ stopCalls[j].pc = "closing"
  /\ httpServers' = [httpServers EXCEPT ![stopCalls[j].server].state = "closed"]
  /\ runningServer' = NoServer
  /\ serverUriPromise' = NoServer
  /\ stopCalls' = [stopCalls EXCEPT ![j].pc = "done"]
  /\ startCalls' = [i \in StartCalls |->
                      IF startCalls[i].pc = "idle" THEN startCalls[i]
                      ELSE [startCalls[i] EXCEPT !.stopSince = TRUE]]
  /\ UNCHANGED <<active, sessionRegistry, debuggee, armed, calls, requests, instances, lastEvent, ended>>

StopForgotten(j) ==
  /\ stopCalls[j].pc \in {"done", "rejected"}
  /\ stopCalls' = [stopCalls EXCEPT ![j] = IdleStop]
  /\ UNCHANGED <<active, sessionRegistry, debuggee, armed, calls, requests, instances, lastEvent, ended,
                 runningServer, serverUriPromise, httpServers, startCalls>>

LifecycleNext ==
  \/ \E i \in StartCalls : StartHttpServer(i)
  \/ \E k \in Servers : ListenSucceeds(k)
  \/ \E k \in Servers : ListenFails(k)
  \/ \E i \in StartCalls : StartSettles(i)
  \/ \E i \in StartCalls : StartForgotten(i)
  \/ \E j \in StopCalls : StopHttpServer(j)
  \/ \E j \in StopCalls : StopCompletes(j)
  \/ \E j \in StopCalls : StopForgotten(j)

LifecycleSpec == Init /\ [][LifecycleNext]_vars

\* ================================================================ claims

\* The session ids a tool call can hand to getSession: given, and accepted
\* by sessionIdSchema.
GivenSessionIds == {sessionId \in SessionIdInputs : sessionId # Undefined /\ SessionIdSchemaOk(sessionId)}

\* C1: resolve(id) for an id that is not in the registry fails with
\* SessionNotFound, never returning a handle and never falling back to the
\* active session; a call that resolved a given id holds the session of that
\* id; and at the step in which list() returns, every handle it returns has
\* its id in the registry.
C1_UntrackedIdNotResolved ==
  /\ [](\A sessionId \in GivenSessionIds :
          sessionId[1] \notin DOMAIN sessionRegistry =>
            GetSession(sessionId) =
              [ok |-> FALSE, session |-> NoSession, error |-> SessionNotFound(sessionId[1])])
  /\ [](\A c \in Calls :
          (calls[c].sessionId # Undefined /\ calls[c].session # NoSession) =>
            SessionIdOf(calls[c].session) = calls[c].sessionId[1])
  /\ [][\A c \in Calls :
          (calls[c].pc = "idle" /\ calls'[c].kind = "list_sessions" /\ calls'[c].pc = "returned") =>
            \A handle \in calls'[c].sessions : handle.id \in DOMAIN sessionRegistry']_vars

\* A status call that named the untracked session s1 failed with
\* SessionNotFound although the host has an active session.
C1_Witness ==
  \E c \in Calls :
    /\ calls[c].kind = "status" /\ calls[c].pc = "failed"
    /\ calls[c].sessionId = Some(<<"s1">>)
    /\ calls[c].error = SessionNotFound(<<"s1">>)
    /\ calls[c].rpcs = 0
    /\ active # NoSession

\* C2: a bridge operation called without a session id tracks the active
\* session before it returns it: at the step in which the operation
\* resolves the active session, that session's id is in the registry.
C2_ActiveSessionTrackedOnResolve ==
  [][\A c \in Calls :
       (calls[c].pc = "idle" /\ calls'[c].kind = "status"
          /\ calls'[c].sessionId = Undefined /\ calls'[c].session # NoSession) =>
         SessionIdOf(calls'[c].session) \in DOMAIN sessionRegistry']_vars

\* C3: status returns stopped=true iff its stackTrace probe succeeded; it
\* returns stopped=false iff the probe failed with the not-halted condition;
\* after any other probe failure it fails with that error.
C3_StatusFollowsProbe ==
  \A c \in Calls :
    calls[c].kind = "status" =>
      /\ calls[c].probe = "ok" <=> (calls[c].pc = "returned" /\ calls[c].stopped)
      /\ (calls[c].probe = "error" /\ calls[c].probeError \in NotStoppedErrors)
           <=> (calls[c].pc = "returned" /\ ~calls[c].stopped)
      /\ (calls[c].probe = "error" /\ calls[c].probeError \notin NotStoppedErrors)
           <=> (calls[c].pc = "failed" /\ calls[c].rpcs = 2)
      /\ (calls[c].pc = "failed" /\ calls[c].rpcs = 2) => calls[c].error = calls[c].probeError

\* A status call returned stopped=false after a not-halted answer that only
\* body.error.id marks.
C3_Witness ==
  \E c \in Calls :
    /\ calls[c].kind = "status" /\ calls[c].pc = "returned" /\ ~calls[c].stopped
    /\ calls[c].probe = "error"
    /\ calls[c].probeError.bodyErrorId = Some(NotStoppedNeedle)

\* C4: a wait_for_stop call whose stack fetches answered not-halted n times
\* and then a frame returns {stopped: true, frame: that frame} after exactly n
\* poll delays and n + 1 stackTrace RPCs; no call returns stopped = false.
C4_WaitCountsPolls ==
  \A c \in Calls :
    (calls[c].kind = "wait_for_stop" /\ calls[c].pc = "returned") =>
      /\ calls[c].stopped
      /\ calls[c].lastFetch = "frame"
      /\ calls[c].frame = Some(calls[c].fetched[1])
      /\ ~calls[c].sawEmpty =>
           /\ calls[c].sleeps = calls[c].notHalted
           /\ calls[c].rpcs = calls[c].notHalted + 1

\* NotHalted, NotHalted, frame 7: two delays, three RPCs.
C4_Witness ==
  \E c \in Calls :
    /\ calls[c].kind = "wait_for_stop" /\ calls[c].pc = "returned"
    /\ ~calls[c].sawEmpty /\ calls[c].notHalted = 2
    /\ calls[c].sleeps = 2 /\ calls[c].rpcs = 3
    /\ calls[c].frame = Some(7)

\* C5: whenever a stack fetch of wait_for_stop succeeds the call returns
\* without sleeping again; a fetch that succeeds with an empty frame list
\* ends the wait with frame = none.
C5_SuccessfulFetchEndsWait ==
  \A c \in Calls :
    (calls[c].kind = "wait_for_stop" /\ calls[c].lastFetch \in {"frame", "empty"}) =>
      /\ calls[c].pc = "returned" /\ calls[c].stopped
      /\ calls[c].lastFetch = "empty" => calls[c].frame = Undefined

\* A stack fetch of call c would now succeed with a frame: the RPC in flight
\* went to a halted session, and so would the next one.
FetchYieldsFrame(c) ==
  /\ calls[c].pc = "awaitStack" => debuggee[calls[c].session] = "stopped"
  /\ GetSession(calls[c].sessionId).ok
  /\ debuggee[GetSession(calls[c].sessionId).session] = "stopped"

Waiting(c) == calls[c].kind = "wait_for_stop" /\ calls[c].pc \in {"awaitStack", "sleeping"}

\* C6: while every stack fetch of a wait_for_stop call has failed with the
\* not-halted condition the call has neither returned nor failed, however
\* many polls it made; and a waiting call returns once the stack fetch
\* succeeds with a frame from then on.
C6_WaitsUntilHalted ==
  /\ [](\A c \in Calls :
          (calls[c].kind = "wait_for_stop" /\ calls[c].onlyNotHalted /\ calls[c].error # InvalidArguments)
            => Waiting(c))
  /\ \A c \in Calls :
       []((Waiting(c) /\ []FetchYieldsFrame(c)) =>
            <>(calls[c].kind = "wait_for_stop" /\ calls[c].pc = "returned"))

\* A call is still asleep after as many not-halted answers as are counted.
C6_Witness ==
  \E c \in Calls :
    /\ Waiting(c) /\ calls[c].onlyNotHalted
    /\ calls[c].notHalted = MaxPolls /\ calls[c].sleeps = MaxPolls /\ calls[c].rpcs = MaxPolls + 1

\* C7: a stack fetch of wait_for_stop that fails with an error other than
\* the not-halted condition fails the call with that error at once, and a
\* failed call sleeps no more and sends no further RPC.
C7_OtherFailureEndsWait ==
  /\ [](\A c \in Calls :
          (calls[c].kind = "wait_for_stop" /\ calls[c].lastFetch = "other") =>
            (calls[c].pc = "failed" /\ calls[c].error = calls[c].fetchError))
  /\ [][\A c \in Calls :
          (calls[c].kind = "wait_for_stop" /\ calls[c].pc = "failed") =>
            (calls'[c] = calls[c] \/ calls'[c] = IdleCall)]_vars

\* A later poll, not the first, failed with an error of the session.
C7_Witness ==
  \E c \in Calls :
    /\ calls[c].kind = "wait_for_stop" /\ calls[c].pc = "failed"
    /\ calls[c].lastFetch = "other" /\ calls[c].fetchError \in OtherErrors
    /\ calls[c].sleeps >= 1

\* C8: after the close signal of its response and the teardown, a
\* wait_for_stop loop sends no further stackTrace RPC.
C8_ClosedRequestStopsPolling ==
  [][\A c \in Calls :
       (calls[c].kind = "wait_for_stop" /\ calls[c].closed) =>
         ~(calls[c].pc = "sleeping" /\ calls'[c].pc = "awaitStack")]_vars

\* A setBreakpoints reply reaches call c, which returns.
BreakpointsReturn(c) == calls[c].pc = "awaitBp" /\ calls'[c].pc = "returned"

\* The list a breakpoint call submits: clear_breakpoints takes no list and
\* stands for the empty one.
Submitted(call) == IF call.kind = "clear_breakpoints" THEN <<>> ELSE call.breakpoints

\* C9: file breakpoints are replaced, not merged. Whenever a set_breakpoint
\* or clear_breakpoints call returns, the session holds for the call's file
\* exactly the list the call submitted, whatever it held before, and holds
\* for every other file (and every other session holds) what it held before;
\* and nothing but such a return (a rejected call, a registry event) changes
\* what is armed. So what is armed for a file is always the list of the most
\* recent call that returned for it.
C9_FileBreakpointsReplaced ==
  [][ /\ \A c \in Calls : BreakpointsReturn(c) =>
            /\ armed'[calls[c].session][calls[c].file] = Submitted(calls[c])
            /\ \A s \in Sessions, f \in Files :
                 <<s, f>> # <<calls[c].session, calls[c].file>> => armed'[s][f] = armed[s][f]
      /\ (\A c \in Calls : ~BreakpointsReturn(c)) => armed' = armed ]_vars

\* [10,20] then [30] for the same file has left only 30, another file of the
\* session still holding its own breakpoints.
C9_Witness ==
  \E c \in Calls :
    /\ calls[c].kind = "set_breakpoint" /\ calls[c].pc = "returned"
    /\ calls[c].breakpoints = <<[line |-> 30]>>
    /\ calls[c].replaced = <<[line |-> 10], [line |-> 20]>>
    /\ armed[calls[c].session][calls[c].file] = <<[line |-> 30]>>
    /\ \E f \in Files \ {calls[c].file} : armed[calls[c].session][f] # <<>>

\* C10: clear_breakpoints(file) is set_breakpoint(file, []). A clear call
\* that reaches the session has issued exactly one RPC, the setBreakpoints
\* request set_breakpoint(file, []) issues (same source path, empty list);
\* when either of the two returns, the session holds no breakpoints for the
\* file; and when it already held none, the return changes nothing.
C10_ClearIsSetEmpty ==
  /\ [](\A c \in Calls :
          (calls[c].kind = "clear_breakpoints" /\ calls[c].pc \in {"awaitBp", "returned"}) =>
             /\ calls[c].rpcs = 1
             /\ calls[c].request = [command |-> "setBreakpoints", path |-> calls[c].file,
                                    breakpoints |-> <<>>, sourceModified |-> FALSE]
             /\ calls[c].request = SetFileBreakpointsRequest(
                  [sessionId |-> calls[c].sessionId, file |-> calls[c].file,
                   breakpoints |-> <<>>, sourceModified |-> Undefined]))
  /\ [][ \A c \in Calls : (BreakpointsReturn(c) /\ Submitted(calls[c]) = <<>>) =>
            /\ armed'[calls[c].session][calls[c].file] = <<>>
            /\ armed[calls[c].session][calls[c].file] = <<>> => armed' = armed ]_vars

\* clear_breakpoints has emptied a file that held breakpoints.
C10_Witness ==
  \E c \in Calls :
    /\ calls[c].kind = "clear_breakpoints" /\ calls[c].pc = "returned"
    /\ calls[c].replaced # <<>>
    /\ armed[calls[c].session][calls[c].file] = <<>>

\* C11: when a breakpoint-setting call returns, its results are as many as
\* the specs it submitted, and the i-th result carries the id, the verified
\* flag and the message the session reported on the i-th spec.
C11_ResultsAsReported ==
  \A c \in Calls :
    (calls[c].kind \in {"set_breakpoint", "clear_breakpoints"} /\ calls[c].pc = "returned") =>
       /\ Len(calls[c].results) = Len(Submitted(calls[c]))
       /\ \A i \in 1..Len(calls[c].results) :
            /\ calls[c].results[i].id = calls[c].reported[i].id
            /\ calls[c].results[i].verified = calls[c].reported[i].verified
            /\ calls[c].results[i].message = calls[c].reported[i].message

\* The inputs that satisfy the schemas of the stack and variables tools,
\* listed: a sessionId that is absent or a non-empty string; thread ids and
\* levels that are positive integers, a start frame, start or variables
\* reference that is a non-negative integer, a filter of the enum.
WellFormedSessionIds == {Undefined, Some(<<"s1">>), Some(<<"s2">>), Some(NotStoppedNeedle)}

WellFormedStackArgs ==
  { NoArgs,
    [NoArgs EXCEPT !.threadId = Some(Num(1))],
    [NoArgs EXCEPT !.startFrame = Some(Num(0))],
    [NoArgs EXCEPT !.startFrame = Some(Num(2))],
    [NoArgs EXCEPT !.levels = Some(Num(1))] }

WellFormedVariablesArgs ==
  { [NoArgs EXCEPT !.variablesReference = Some(Num(0))],
    [NoArgs EXCEPT !.variablesReference = Some(Num(3))],
    [NoArgs EXCEPT !.variablesReference = Some(Num(3)), !.start = Some(Num(0))],
    [NoArgs EXCEPT !.variablesReference = Some(Num(3)), !.count = Some(Num(5))],
    [NoArgs EXCEPT !.variablesReference = Some(Num(3)), !.filter = Some(Str("indexed"))],
    [NoArgs EXCEPT !.variablesReference = Some(Num(3)), !.filter = Some(Str("named"))] }

WellFormedInput(call) ==
  /\ call.sessionId \in WellFormedSessionIds
  /\ call.kind = "stack" => call.args \in WellFormedStackArgs
  /\ call.kind = "variables" => call.args \in WellFormedVariablesArgs

\* C12: a stack or variables call whose arguments violate the tool's schema
\* (a required field missing, a wrong type, a number out of bounds or
\* fractional, a value outside the enum) has failed with InvalidArguments and
\* has sent no RPC; a call that has sent an RPC had well-formed arguments.
C12_InvalidInputSendsNothing ==
  \A c \in Calls :
    calls[c].kind \in {"stack", "variables"} =>
      /\ ~WellFormedInput(calls[c]) =>
            /\ calls[c].pc = "failed" /\ calls[c].error = InvalidArguments
            /\ calls[c].rpcs = 0 /\ calls[c].sent = <<>>
      /\ (calls[c].rpcs > 0 \/ calls[c].sent # <<>>) => WellFormedInput(calls[c])

\* The variables tool was called with a filter outside its enum and failed.
C12_Witness ==
  \E c \in Calls :
    /\ calls[c].kind = "variables" /\ calls[c].args.filter = Some(Str("all"))
    /\ calls[c].pc = "failed" /\ calls[c].error = InvalidArguments /\ calls[c].rpcs = 0

\* Session resolution fails for sessionId in the current state: an id is
\* given and not tracked, or none is given and no session is active.
ResolutionFails(sessionId) ==
  IF sessionId # Undefined
  THEN sessionId[1] \notin DOMAIN sessionRegistry
  ELSE active = NoSession

\* Call c of wait_for_stop runs dap.stack in this step: its first poll, with
\* arguments the schema accepts, or the poll after a delay.
WfsResolves(c) ==
  \/ calls[c].pc = "idle" /\ calls'[c].kind = "wait_for_stop" /\ calls'[c].error # InvalidArguments
  \/ calls[c].kind = "wait_for_stop" /\ calls[c].pc = "sleeping" /\ calls'[c] # calls[c]

\* C13: when a bridge operation cannot resolve its session, the call fails
\* with SessionNotFound / NoActiveSession, no RPC is sent, the registry is
\* unchanged and the operation is not tried again; here for dap.stack as
\* wait_for_stop calls it.
C13_ResolutionFailureEndsCall ==
  [][ \A c \in Calls :
        (WfsResolves(c) /\ ResolutionFails(calls'[c].sessionId)) =>
           /\ calls'[c].pc = "failed"
           /\ calls'[c].error = IF calls'[c].sessionId = Undefined
                                THEN NoActiveSession
                                ELSE SessionNotFound(calls'[c].sessionId[1])
           /\ calls'[c].rpcs = calls[c].rpcs
           /\ sessionRegistry' = sessionRegistry ]_vars

\* A path parameter that is not numeric: it holds a character that is no
\* digit, sign or point.
NotNumeric(text) == \E i \in 1..Len(text) : text[i] \notin Digits \cup {"-", "."}

\* C14: a read of the variables resource whose frame id is not numeric has
\* failed with the resource's invalid-argument error ('frameId must be a
\* number') and has sent no RPC, neither scopes nor variables.
C14_NonNumericFrameIdRejected ==
  \A c \in Calls :
    (calls[c].kind = "variables_resource" /\ NotNumeric(calls[c].text)) =>
       /\ calls[c].pc = "failed" /\ calls[c].error = FrameIdMustBeNumber
       /\ calls[c].rpcs = 0 /\ calls[c].sent = <<>>

\* The resource was read with frame id "7a" and failed.
C14_Witness ==
  \E c \in Calls :
    /\ calls[c].kind = "variables_resource" /\ calls[c].text = <<"7", "a">>
    /\ calls[c].pc = "failed" /\ calls[c].rpcs = 0

\* A path parameter that is a non-negative integer: digits, at least one.
NonNegativeIntegerText(text) == text # <<>> /\ AllDigits(text)

\* C15: a read of the variables resource whose path parameter is not a
\* non-negative integer (a negative or fractional number, the empty string,
\* anything else) has failed having sent no RPC, and a read that has sent a
\* scopes RPC had a non-negative integer for its frame id.
C15_OnlyNonNegativeIntegerFrameIds ==
  \A c \in Calls :
    calls[c].kind = "variables_resource" =>
      /\ ~NonNegativeIntegerText(calls[c].text) =>
            /\ calls[c].pc = "failed" /\ calls[c].error = FrameIdMustBeNumber
            /\ calls[c].sent = <<>>
      /\ calls[c].sent # <<>> => NonNegativeIntegerText(calls[c].text)

\* The evaluate RPCs a call has sent.
EvaluateRpcs(call) == {i \in 1..Len(call.sent) : call.sent[i].command = "evaluate"}

\* C16: the frame id of evaluate_expr's evaluate RPC. With a frameId given,
\* the call sends no stackTrace and its evaluate carries that id. Without
\* one, the evaluate follows one stackTrace of the same call, from frame 0
\* for 1 level, and carries the id of the top frame that fetch returned, or
\* no frame id when it returned no frame; and after a fetch that returned no
\* frame the evaluate is sent all the same, unless the session can no longer
\* be resolved.
C16_EvaluateFrameId ==
  \A c \in Calls :
    calls[c].kind = "evaluate_expr" =>
      LET call == calls[c]
          given == call.args.frameId
      IN  /\ \A i \in EvaluateRpcs(call) :
               IF given # Undefined
               THEN /\ call.sent[i].params.frameId = given
                    /\ Len(call.sent) = 1
               ELSE /\ i = 2 /\ Len(call.sent) = 2
                    /\ call.sent[1].command = "stackTrace"
                    /\ call.sent[1].params.startFrame = Some(Num(0))
                    /\ call.sent[1].params.levels = Some(Num(1))
                    /\ call.lastFetch \in {"frame", "empty"}
                    /\ call.sent[i].params.frameId =
                         IF call.lastFetch = "frame" THEN Some(Num(call.fetched[1])) ELSE Undefined
          /\ call.lastFetch = "empty" =>
               \/ EvaluateRpcs(call) # {}
               \/ call.pc = "failed" /\ call.error \in {NoActiveSession} \cup
                                          {SessionNotFound(id[1]) : id \in GivenSessionIds}

\* Without a frameId and with top frame 7, the evaluate RPC carried frameId 7
\* and the call returned.
C16_Witness ==
  \E c \in Calls :
    /\ calls[c].kind = "evaluate_expr" /\ calls[c].pc = "returned"
    /\ calls[c].args.frameId = Undefined /\ calls[c].fetched = <<7>>
    /\ Len(calls[c].sent) = 2 /\ calls[c].sent[2].command = "evaluate"
    /\ calls[c].sent[2].params.frameId = Some(Num(7))

\* A POST to /mcp, whose body the handler reads, and such a request once
\* the handler has answered it or handed it to dispatch.
BodyRead(c) ==
  calls[c].kind = "http" /\ calls[c].http.method = "POST" /\ calls[c].http.pathname = "/mcp"

BodyReadOver(c) == BodyRead(c) /\ calls[c].pc \in {"failed", "returned"}

\* C17: a POST body is rejected as too large exactly when its byte length
\* exceeds 2097152, however it is split into chunks: only a longer body is
\* answered 413 'Payload too large', every longer body that the connection
\* delivers is, and a JSON body of exactly 2097152 bytes goes to dispatch.
C17_CeilingIsTwoMiB ==
  \A c \in Calls :
    BodyReadOver(c) =>
      LET http == calls[c].http
          tooLarge == http.statusCode = 413 /\ http.envelope.message = "Payload too large"
      IN  /\ tooLarge => ByteLength(http.body) > 2097152
          /\ (ByteLength(http.body) > 2097152 /\ ~http.transportError) => tooLarge /\ ~http.dispatched
          /\ (ByteLength(http.body) = 2097152 /\ http.wellFormed /\ ~http.transportError) =>
                http.dispatched /\ http.statusCode = 0

\* A JSON body of exactly 2 MiB, sent as 2 MiB - 1 bytes and then 1 byte,
\* went to dispatch.
C17_Witness ==
  \E c \in Calls :
    /\ BodyReadOver(c) /\ calls[c].http.body = <<2097151, 1>>
    /\ calls[c].http.dispatched /\ calls[c].http.statusCode = 0

\* C18: a POST whose body is over the ceiling, empty or not JSON is answered
\* with the error envelope, and a request so answered was never connected
\* nor handed to dispatch and has sent no RPC; for a body over the ceiling
\* the read was aborted and JSON.parse was never called.
C18_BadBodyNeverDispatched ==
  \A c \in Calls :
    BodyRead(c) =>
      LET http == calls[c].http
      IN  /\ (BodyReadOver(c) /\ ~http.transportError
                /\ (ByteLength(http.body) > 2097152 \/ ByteLength(http.body) = 0 \/ ~http.wellFormed)) =>
                http.statusCode \in {400, 413} /\ http.envelope # NoEnvelope
          /\ http.statusCode \in {400, 413} =>
                /\ ~http.connected /\ ~http.dispatched
                /\ calls[c].rpcs = 0 /\ calls[c].sent = <<>>
          /\ http.size > 2097152 => http.destroyed /\ ~http.parseAttempted /\ http.statusCode = 413

\* A body that is not JSON was answered 400 and never reached dispatch.
C18_Witness ==
  \E c \in Calls :
    /\ BodyReadOver(c) /\ ~calls[c].http.wellFormed /\ calls[c].http.parseAttempted
    /\ calls[c].http.statusCode = 400 /\ ~calls[c].http.connected /\ ~calls[c].http.dispatched

\* The envelope of a body-read failure, but for the error's data: jsonrpc
\* '2.0', code -32700, id null, and 413 'Payload too large' exactly when the
\* ceiling was exceeded, 400 'Parse error' otherwise.
ReadFailureEnvelope(http) ==
  /\ http.envelope.jsonrpc = "2.0" /\ http.envelope.code = -32700 /\ http.envelope.id = "null"
  /\ IF http.size > 2097152
     THEN http.statusCode = 413 /\ http.envelope.message = "Payload too large"
     ELSE http.statusCode = 400 /\ http.envelope.message = "Parse error"

\* C19, as stated: every body-read failure is answered with that envelope,
\* and the error object holds the code and the message and nothing else.
C19_EnvelopeExactly ==
  \A c \in Calls :
    (BodyReadOver(c) /\ calls[c].pc = "failed") =>
       /\ ReadFailureEnvelope(calls[c].http)
       /\ calls[c].http.envelope.data = Undefined

\* C19, amended: every body-read failure is answered with that envelope,
\* whose error object also holds, as data, the message of the failure.
C19_EnvelopeWithData ==
  \A c \in Calls :
    (BodyReadOver(c) /\ calls[c].pc = "failed") =>
       /\ ReadFailureEnvelope(calls[c].http)
       /\ calls[c].http.envelope.data =
            Some(IF calls[c].http.size > 2097152 THEN "Payload too large"
                 ELSE IF calls[c].http.transportError THEN "aborted"
                 ELSE IF calls[c].http.chunks = 0 THEN "Empty request body"
                 ELSE "Unexpected token")

\* A malformed body was answered 400 'Parse error' with the parser's message
\* as data.
C19_Witness ==
  \E c \in Calls :
    /\ BodyReadOver(c) /\ calls[c].pc = "failed" /\ calls[c].http.parseAttempted
    /\ calls[c].http.statusCode = 400 /\ calls[c].http.envelope.message = "Parse error"
    /\ calls[c].http.envelope.data = Some("Unexpected token")

\* C20: once the response of a request has closed (it ended, or the client
\* went away), the request's adapter and server have been closed, also when
\* the close comes after the dispatch call has returned.
C20_ClosedOnceResponseCloses ==
  \A c \in Calls : calls[c].resClosed => calls[c].closed

\* C21: per request, teardown closes the adapter and the server at most
\* once each, whatever the number of close signals and their order with the
\* end of dispatch; a close signal that finds the teardown begun changes
\* nothing; and when closing the adapter fails the server is closed all the
\* same, the failure being swallowed where it arose.
C21_TeardownAtMostOnce ==
  /\ [](\A r \in Requests :
          requests[r].instance # 0 =>
               /\ instances[requests[r].instance].transportCloses <= 1
               /\ instances[requests[r].instance].serverCloses <= 1
               /\ requests[r].step \in {"closingServer", "done"} =>
                    instances[requests[r].instance].serverCloses = 1)
  /\ [][ \A r \in Requests :
           (requests[r].closed /\ requests'[r].signals = requests[r].signals + 1) =>
              /\ instances' = instances
              /\ requests'[r].step = requests[r].step ]_vars

\* Two close signals have arrived, closing the adapter failed, and the
\* server was closed, once.
C21_Witness ==
  \E r \in Requests :
    /\ requests[r].signals = 2 /\ requests[r].transportCloseFailed /\ requests[r].step = "done"
    /\ instances[requests[r].instance].transportCloses = 1
    /\ instances[requests[r].instance].serverCloses = 1

\* C22: when connecting or dispatching a request threw, the handler has
\* answered 500 with an error body if no response headers had been sent by
\* then, and has written no status and no body of its own if they had.
C22_ServerErrorOnlyBeforeHeaders ==
  \A r \in Requests :
    requests[r].threw =>
      IF requests[r].sentAtThrow
      THEN requests[r].statusCode = 0 /\ requests[r].errorBody = Undefined
      ELSE requests[r].statusCode = 500 /\ requests[r].errorBody # Undefined

\* Dispatch threw after the head of the response was written, and the
\* handler wrote nothing.
C22_Witness ==
  \E r \in Requests :
    /\ requests[r].threw /\ requests[r].sentAtThrow
    /\ requests[r].statusCode = 0 /\ requests[r].errorBody = Undefined

\* C29: requests in flight at the same time hold different server /
\* transport pairs, no pair was ever handed to two requests, and a pair is
\* closed by no request but the one it was made for: a step of one request's
\* teardown leaves every other pair as it was.
C29_NoSharedInstances ==
  /\ [](/\ \A r1, r2 \in Requests :
             (r1 # r2 /\ requests[r1].pc # "idle" /\ requests[r2].pc # "idle") =>
                requests[r1].instance # requests[r2].instance
        /\ \A i \in Instances :
             /\ Cardinality(instances[i].users) <= 1
             /\ instances[i].closers \subseteq instances[i].users
        /\ \A r \in Requests : requests[r].pc # "idle" => instances[requests[r].instance].users = {r})
  /\ [][ \A i \in Instances :
           (instances'[i].transportCloses # instances[i].transportCloses
              \/ instances'[i].serverCloses # instances[i].serverCloses) =>
             \E r \in Requests : /\ requests[r].instance = i /\ instances[i].users = {r}
                                  /\ requests'[r] # requests[r]
                                  /\ \A r2 \in Requests \ {r} : requests'[r2] = requests[r2] ]_vars

\* One request's pair has been closed while another request is still being
\* dispatched with its own pair untouched.
C29_Witness ==
  \E r1, r2 \in Requests :
    /\ r1 # r2 /\ requests[r1].step = "done" /\ requests[r2].pc = "dispatching"
    /\ requests[r1].instance # requests[r2].instance
    /\ instances[requests[r1].instance].serverCloses = 1
    /\ instances[requests[r2].instance].serverCloses = 0
    /\ instances[requests[r2].instance].transportCloses = 0

\* C26: inside status the threads RPC goes out first and the stackTrace
\* probe second; when the threads RPC fails or answers without a list the
\* call goes on with an empty thread list and probes thread 1; when a list
\* is reported the probe uses its first id (1 if the list is empty); and
\* status fails only on its arguments, on resolving the session or on the
\* probe, never on the threads RPC.
C26_ThreadsBestEffort ==
  \A c \in Calls :
    calls[c].kind = "status" =>
      /\ calls[c].pc = "awaitThreads" =>
           calls[c].sent = <<Rpc("threads", calls[c].session, NoArgs)>>
      /\ calls[c].rpcs = 2 =>
           LET answer == calls[c].threadsAnswer
           IN  /\ Len(calls[c].sent) = 2
               /\ calls[c].sent[1].command = "threads"
               /\ calls[c].sent[2] = Rpc("stackTrace", calls[c].session,
                                         StatusProbeParams(calls[c].threadId))
               /\ (~answer.ok \/ ~answer.hasList) =>
                    calls[c].threads = <<>> /\ calls[c].threadId = 1
               /\ (answer.ok /\ answer.hasList) =>
                    /\ calls[c].threads = answer.threads
                    /\ calls[c].threadId = IF answer.threads = <<>> THEN 1 ELSE answer.threads[1]
      /\ calls[c].pc = "failed" =>
           \/ calls[c].rpcs = 0
           \/ calls[c].rpcs = 2 /\ calls[c].probe = "error" /\ calls[c].error = calls[c].probeError

\* A status call has returned although its threads RPC failed, having
\* probed thread 1.
C26_Witness ==
  \E c \in Calls :
    /\ calls[c].kind = "status" /\ calls[c].pc = "returned"
    /\ ~calls[c].threadsAnswer.ok
    /\ calls[c].threads = <<>> /\ calls[c].threadId = 1 /\ calls[c].stopped

\* The stackTrace snapshot fetches the top frame with.
SnapshotStackRpc(call) ==
  /\ call.sent[1].command = "stackTrace"
  /\ call.sent[1].params.startFrame = Some(Num(0))
  /\ call.sent[1].params.levels = Some(Num(1))

\* C27: when the one-level stack fetch of snapshot comes back without a
\* frame, the call has returned {frame: none, scopes: []} having issued that
\* stackTrace (startFrame 0, levels 1) and no other RPC.
C27_NoFrameOneRpc ==
  \A c \in Calls :
    (calls[c].kind = "snapshot" /\ calls[c].lastFetch = "empty") =>
      /\ calls[c].pc = "returned"
      /\ calls[c].frame = Undefined /\ calls[c].result = <<>>
      /\ calls[c].rpcs = 1 /\ Len(calls[c].sent) = 1
      /\ SnapshotStackRpc(calls[c])

\* A snapshot of a debuggee stopped without frames has returned.
C27_Witness ==
  \E c \in Calls :
    /\ calls[c].kind = "snapshot" /\ calls[c].lastFetch = "empty" /\ calls[c].pc = "returned"
    /\ calls[c].frame = Undefined /\ calls[c].result = <<>> /\ Len(calls[c].sent) = 1

\* The scopes snapshot fetches variables for: those not marked expensive,
\* all of them when includeExpensive is true, in the order reported.
SnapshotIncluded(call) ==
  SelectSeq(call.scopes,
            LAMBDA scope : ~scope.expensive \/ call.args.includeExpensive = Some(Bool(TRUE)))

\* C28: once snapshot has a top frame, its second RPC is one scopes RPC for
\* that frame; the RPCs after it are variables RPCs, one per included scope
\* in the reported order with count = maxVariables, none for a skipped
\* expensive scope; and a call that returns has issued one for every
\* included scope and returns the frame with the {scope, variables} pairs of
\* exactly those scopes in that order.
C28_OneVariablesRpcPerIncludedScope ==
  \A c \in Calls :
    (calls[c].kind = "snapshot" /\ calls[c].lastFetch = "frame" /\ Len(calls[c].sent) >= 2) =>
      LET call == calls[c]
          included == SnapshotIncluded(call)
          fetches == Len(call.sent) - 2
      IN  /\ SnapshotStackRpc(call)
          /\ call.sent[2].command = "scopes"
          /\ call.sent[2].params = ScopesParams(Num(call.fetched[1]))
          /\ fetches <= Len(included)
          /\ \A k \in 1..fetches :
               /\ call.sent[k + 2].command = "variables"
               /\ call.sent[k + 2].params.variablesReference = Some(Num(included[k].variablesReference))
               /\ call.sent[k + 2].params.count = call.args.maxVariables
          /\ call.pc = "returned" =>
               /\ fetches = Len(included)
               /\ call.frame = Some(call.fetched[1])
               /\ Len(call.result) = Len(included)
               /\ \A k \in 1..Len(included) : call.result[k].scope = included[k]

\* A snapshot without includeExpensive has returned two pairs out of three
\* reported scopes, the expensive one between them skipped, after four RPCs
\* with count = maxVariables.
C28_Witness ==
  \E c \in Calls :
    /\ calls[c].kind = "snapshot" /\ calls[c].pc = "returned"
    /\ Len(calls[c].scopes) = 3 /\ calls[c].args.includeExpensive = Undefined
    /\ calls[c].args.maxVariables = Some(Num(10))
    /\ Len(calls[c].sent) = 4 /\ Len(calls[c].result) = 2
    /\ calls[c].result[2].scope.variablesReference = 5
    /\ calls[c].sent[4].params.count = Some(Num(10))

\* The positions at which a call waits for the answer of an RPC.
AwaitingPcs ==
  {"awaitThreads", "awaitProbe", "awaitStack", "awaitBp", "awaitStackTool", "awaitVariablesTool",
   "awaitScopes", "awaitVariables", "awaitEvaluateStack", "awaitEvaluate", "awaitSnapshotStack",
   "awaitSnapshotScopes", "awaitSnapshotVariables", "awaitThreadsTool", "awaitScopesTool",
   "awaitStackResource", "awaitControl", "awaitBreakpointUpdates"}

\* The tools and resources whose requests a session rejects while its
\* debuggee runs.
InspectingKinds ==
  {"stack", "scopes", "variables", "snapshot", "evaluate_expr", "stack_resource", "variables_resource"}

\* The answer to the RPC call c waits for settles in this step.
RpcSettles(c) == calls[c].pc \in AwaitingPcs /\ calls'[c] # calls[c]

\* C23: outside status and wait_for_stop nothing treats a rejected RPC as
\* expected. When the answer to an RPC of any other tool or resource settles
\* while its session rejects requests (the debuggee runs, for the inspecting
\* ones; the session is broken, for all but setBreakpoints and threads,
\* which a session answers either way in any condition), the call fails
\* with an error of that rejection, be it the not-halted one or another; and
\* a call that fails returns no result, partial or empty, and sends nothing
\* again.
C23_RpcFailureFailsTheCall ==
  [][ \A c \in Calls :
        (RpcSettles(c) /\ calls[c].kind \notin {"status", "wait_for_stop"}) =>
          LET state == debuggee[calls[c].session]
          IN  /\ (state = "running" /\ calls[c].kind \in InspectingKinds) =>
                   calls'[c].pc = "failed" /\ calls'[c].error \in NotStoppedErrors
              /\ (state = "broken" /\ calls[c].pc \notin {"awaitBp", "awaitThreadsTool"}) =>
                   calls'[c].pc = "failed" /\ calls'[c].error \in OtherErrors
              /\ calls'[c].pc = "failed" =>
                   /\ calls'[c].error \in NotStoppedErrors \cup OtherErrors
                        \/ (calls'[c].error \notin {NoError, InvalidArguments}
                              /\ ~GetSession(calls[c].sessionId).ok)
                   /\ calls'[c].result = <<>> /\ calls'[c].results = <<>>
                   /\ calls'[c].sent = calls[c].sent /\ calls'[c].rpcs = calls[c].rpcs
                   /\ armed' = armed ]_vars

\* A snapshot has failed with the not-halted condition on its third RPC,
\* one pair already gathered, and returns nothing.
C23_Witness ==
  \E c \in Calls :
    /\ calls[c].kind = "snapshot" /\ calls[c].pc = "failed"
    /\ calls[c].error \in NotStoppedErrors
    /\ Len(calls[c].sent) = 4 /\ Len(calls[c].scopedVariables) = 1 /\ calls[c].result = <<>>

\* An RPC leaves call c in this step.
RpcIssued(c) ==
  /\ calls'[c].pc \in AwaitingPcs
  /\ calls'[c].pc # calls[c].pc \/ calls'[c].rpcs > calls[c].rpcs

\* C24: an RPC of a call that gives a sessionId goes to the session held
\* under that id, registered under it when the call resolved it, whichever
\* session is active; an RPC of a call that omits it goes to the session
\* that is active when the call resolves it (status resolves once and sends
\* both its RPCs there).
C24_RpcsGoToTheResolvedSession ==
  [][ \A c \in Calls :
        RpcIssued(c) =>
          LET id == calls'[c].sessionId
              target == calls'[c].session
              held == calls[c].kind = "status" /\ calls[c].pc = "awaitThreads"
          IN  /\ target \in Sessions
              /\ calls'[c].sent # <<>> => calls'[c].sent[Len(calls'[c].sent)].session = target
              /\ IF id # Undefined
                 THEN /\ SessionIdOf(target) = id[1]
                      /\ IF held THEN target = calls[c].session
                         ELSE id[1] \in DOMAIN sessionRegistry /\ sessionRegistry[id[1]] = target
                 ELSE IF held THEN target = calls[c].session ELSE target = active ]_vars

\* A call that named session B has its RPC in flight to B while A is the
\* active session.
C24_Witness ==
  \E c \in Calls :
    /\ calls[c].pc \in AwaitingPcs /\ calls[c].sessionId = Some(SessionIdOf("B"))
    /\ calls[c].session = "B" /\ active = "A"
    /\ calls[c].sent # <<>> /\ calls[c].sent[1].session = "B"

\* The commands of the RPCs a call has sent, in order.
Commands(call) == [i \in 1..Len(call.sent) |-> call.sent[i].command]

IsPrefix(s, t) == Len(s) <= Len(t) /\ \A i \in 1..Len(s) : s[i] = t[i]

\* C30: a call of status, snapshot or evaluate_expr has at most one RPC
\* unanswered, sends an RPC only when every earlier one of its own has been
\* answered, one at a time, and sends them in the order threads, stackTrace
\* (status); stackTrace, scopes, then variables scope by scope in the
\* reported order (snapshot); stackTrace, evaluate (evaluate_expr, which
\* sends evaluate alone when it is given a frame).
C30_RpcsOfACallAreSequential ==
  /\ [](\A c \in Calls :
          calls[c].kind \in {"status", "snapshot", "evaluate_expr"} =>
            LET call == calls[c]
                unanswered == Len(call.sent) - call.answered
            IN  /\ unanswered \in {0, 1}
                /\ unanswered = 1 <=> call.pc \in AwaitingPcs
                /\ call.kind = "status" => IsPrefix(Commands(call), <<"threads", "stackTrace">>)
                /\ call.kind = "evaluate_expr" =>
                     IF Falsy(call.args.frameId)
                     THEN IsPrefix(Commands(call), <<"stackTrace", "evaluate">>)
                     ELSE IsPrefix(Commands(call), <<"evaluate">>)
                /\ call.kind = "snapshot" =>
                     /\ IsPrefix(SubSeq(Commands(call), 1, IF Len(call.sent) < 2 THEN Len(call.sent) ELSE 2),
                                 <<"stackTrace", "scopes">>)
                     /\ \A i \in 3..Len(call.sent) :
                          /\ call.sent[i].command = "variables"
                          /\ \E k \in 1..Len(call.scopes) :
                               /\ call.sent[i].params.variablesReference =
                                    Some(Num(call.scopes[k].variablesReference))
                               /\ i > 3 =>
                                    \E j \in 1..(k - 1) :
                                      call.sent[i - 1].params.variablesReference =
                                        Some(Num(call.scopes[j].variablesReference)))
  /\ [][ \A c \in Calls :
           (calls'[c].kind \in {"status", "snapshot", "evaluate_expr"}
              /\ Len(calls'[c].sent) > Len(calls[c].sent)) =>
             /\ Len(calls'[c].sent) = Len(calls[c].sent) + 1
             /\ calls'[c].answered = Len(calls[c].sent) ]_vars

\* A snapshot has returned after five RPCs, each sent after the answer to
\* the one before: stackTrace, scopes and the variables of three scopes.
C30_Witness ==
  \E c \in Calls :
    /\ calls[c].kind = "snapshot" /\ calls[c].pc = "returned"
    /\ Commands(calls[c]) = <<"stackTrace", "scopes", "variables", "variables", "variables">>
    /\ calls[c].answered = 5

\* A header value names a media type: one of the items its commas separate
\* is that type.
Names(value, type) ==
  /\ value # Undefined
  /\ \E i \in 1..Len(value[1]) :
       /\ value[1][i] = type
       /\ i = 1 \/ value[1][i - 1] = ", "
       /\ i = Len(value[1]) \/ value[1][i + 1] = ", "

\* C25: once the handler has normalized the headers of a request to /mcp,
\* the Accept of a POST names application/json and text/event-stream and
\* its Content-Type is the client's, or application/json if the client gave
\* none; the Accept of a GET names text/event-stream; an Accept that named
\* them already is as the client sent it; any other method's headers are as
\* the client sent them.
C25_HeadersNormalized ==
  \A c \in Calls :
    (calls[c].kind = "http" /\ calls[c].http.madeServer) =>
      LET method == calls[c].http.method
          given == calls[c].http.given
          headers == calls[c].http.headers
      IN  /\ method = "POST" =>
               /\ Names(headers.accept, "application/json")
               /\ Names(headers.accept, "text/event-stream")
               /\ headers.contentType =
                    IF NoValue(given.contentType) THEN Some(<<"application/json">>) ELSE given.contentType
               /\ (Names(given.accept, "application/json") /\ Names(given.accept, "text/event-stream")) =>
                    headers.accept = given.accept
          /\ method = "GET" =>
               /\ Names(headers.accept, "text/event-stream")
               /\ Names(given.accept, "text/event-stream") => headers.accept = given.accept
          /\ method \notin {"POST", "GET"} => headers = given

\* C31: a call of an execution-control tool sends at most one RPC, the
\* request of its tool, with threadId 1 when a thread-based tool is given
\* none; it returns the fixed acknowledgement only when that RPC has settled
\* without error; and when the RPC is rejected the call fails with the
\* rejection and returns no acknowledgement.
C31_OneRpcThenAcknowledge ==
  /\ [](\A c \in Calls :
          calls[c].kind \in ControlTools =>
            LET call == calls[c]
            IN  /\ Len(call.sent) <= 1 /\ call.rpcs = Len(call.sent)
                /\ call.sent # <<>> =>
                     /\ call.sent[1].command = ControlCommand(call.kind)
                     /\ call.kind \in SteppingTools =>
                          call.sent[1].params.threadId =
                            IF call.args.threadId = Undefined THEN Some(Num(1)) ELSE call.args.threadId
                /\ call.pc = "returned" =>
                     /\ call.result = okResult /\ Len(call.sent) = 1 /\ call.answered = 1
                     /\ call.error = NoError
                /\ call.pc # "returned" => call.result = <<>>)
  /\ [][ \A c \in Calls :
           (calls[c].kind \in ControlTools /\ calls[c].pc = "awaitControl" /\ calls'[c] # calls[c]) =>
             /\ calls'[c].sent = calls[c].sent
             /\ debuggee[calls[c].session] = "broken" =>
                  /\ calls'[c].pc = "failed" /\ calls'[c].error \in OtherErrors
                  /\ calls'[c].result = <<>>
             /\ debuggee[calls[c].session] \in {"stopped", "stoppedNoFrames"} =>
                  calls'[c].pc = "returned" ]_vars

\* step_over, given no threadId, has returned the acknowledgement after its
\* one next request for thread 1.
C31_Witness ==
  \E c \in Calls :
    /\ calls[c].kind = "step_over" /\ calls[c].pc = "returned" /\ calls[c].result = okResult
    /\ calls[c].args.threadId = Undefined
    /\ calls[c].sent[1].command = "next" /\ calls[c].sent[1].params.threadId = Some(Num(1))

\* C32: after any sequence of start, active-change and terminate events
\* the registry holds the handle of every session whose last event was a
\* start or an active-change, listed and resolvable by its id, and no entry
\* for a session whose last event was a terminate; a start for a tracked
\* session, a terminate for an untracked one and an active-change to no
\* session leave the registry as it was.
C32_Listed == {DescribeSession(sessionRegistry[id]) : id \in DOMAIN sessionRegistry}

C33_ResourceKinds == {"variables_resource", "stack_resource"}

C33_ResourceRequests ==
  [][\A c \in Calls :
       calls'[c].kind \in C33_ResourceKinds /\ calls'[c] # calls[c] =>
         LET before == calls[c]
             after == calls'[c]
         IN  /\ after.kind = "variables_resource" =>
                   /\ Len(after.sent) <= 2
                   /\ Len(after.sent) >= 1 =>
                        /\ after.sent[1].command = "scopes"
                        /\ after.sent[1].params = ScopesParams(Number(after.text))
                   /\ Len(after.sent) = 2 =>
                        /\ after.sent[2].command = "variables"
                        /\ \E l \in ScopeLists \ {<<>>} :
                             after.sent[2].params =
                               VariablesParams([NoArgs EXCEPT !.variablesReference =
                                                  Some(Num(l[1].variablesReference))])
                   /\ before.pc = "awaitScopes" /\ after.pc = "returned" =>
                        after.result = <<>> /\ Len(after.sent) = 1
             /\ after.kind = "stack_resource" => Len(after.sent) <= 1
             /\ Len(after.sent) > Len(before.sent) =>
                   /\ Len(after.sent) = Len(before.sent) + 1
                   /\ active # NoSession
                   /\ after.sent[Len(after.sent)].session = active
             /\ before.pc = "idle" /\ active = NoSession /\ after.error # FrameIdMustBeNumber =>
                   after.pc = "failed" /\ after.error = NoActiveSession /\ after.sent = <<>>
             /\ before.pc = "awaitScopes" /\ active = NoSession =>
                   \/ after.pc = "failed" /\ Len(after.sent) = 1
                   \/ after.pc = "returned" /\ after.result = <<>>]_vars

\* A read went through both requests while three scopes were reported.
C33_Witness ==
  \E c \in Calls :
    /\ calls[c].kind = "variables_resource" /\ calls[c].pc = "returned"
    /\ Len(calls[c].sent) = 2
    /\ calls[c].sent[2].params.variablesReference = Some(Num(3))
    /\ calls[c].result # <<>>

\* C34: no scopes or variables request carries a frame id or a
\* variables-reference the session gave out in a stopped state that a
\* continue or step has ended since, whatever a concurrent request does
\* between the requests of a snapshot.
C34_NoStaleIds ==
  [][\A c \in Calls \cup ConcurrentCalls :
       Len(calls'[c].sent) > Len(calls[c].sent) =>
         LET rpc == calls'[c].sent[Len(calls'[c].sent)]
         IN  rpc.command \in {"scopes", "variables"} => calls'[c].minted = ended[rpc.session]]_vars

\* C35: while the last tracking event that named a session is its
\* terminate, list_sessions returns no handle of it and no bridge operation
\* called without a session id sends a request to it, wherever the host's
\* active-session pointer points.
C35_TerminatedNotUsed ==
  [][\A s \in Sessions, c \in Calls :
       lastEvent[s] = "terminate" /\ calls'[c] # calls[c] =>
         /\ calls'[c].kind = "list_sessions" => DescribeSession(s) \notin calls'[c].sessions
         /\ calls'[c].sessionId = Undefined /\ Len(calls'[c].sent) > Len(calls[c].sent) =>
              calls'[c].sent[Len(calls'[c].sent)].session # s]_vars

\* C36: every request a tool call sends goes to the session its first
\* request went to, whatever the host's active session becomes in between.
C36_OneSessionPerCall ==
  [][\A c \in Calls :
       Len(calls'[c].sent) > Len(calls[c].sent) /\ Len(calls[c].sent) >= 1 =>
         calls'[c].sent[Len(calls'[c].sent)].session = calls[c].sent[1].session]_vars

\* C37: the handler completes the response of a request at most once and
\* on one path: off /mcp the bare 404, with no server and no transport made
\* and nothing dispatched; on a failed body read the 400 or 413 envelope,
\* and no dispatch; and after dispatch the 500 only if the headers had not
\* been sent when it threw. Once the handler has answered, it writes nothing
\* further.
C37_OnePathPerRequest ==
  /\ [](/\ \A c \in Calls :
            calls[c].kind = "http" =>
              LET http == calls[c].http
              IN  /\ http.statusCode \in {0, 404, 400, 413}
                  /\ http.pathname # "/mcp" =>
                        /\ http.statusCode = 404 /\ http.envelope = NoEnvelope
                        /\ ~http.madeServer /\ ~http.connected /\ ~http.dispatched
                  /\ http.statusCode = 404 => http.pathname # "/mcp"
                  /\ http.statusCode \in {400, 413} =>
                        /\ http.envelope # NoEnvelope
                        /\ ~http.connected /\ ~http.dispatched
                  /\ http.dispatched => http.statusCode = 0 /\ http.envelope = NoEnvelope
        /\ \A r \in Requests :
            /\ requests[r].statusCode \in {0, 500}
            /\ requests[r].statusCode = 500 => requests[r].threw /\ ~requests[r].sentAtThrow)
  /\ [][/\ \A c \in Calls :
            calls[c].http.statusCode # 0 => calls'[c].http = calls[c].http \/ calls'[c] = IdleCall
        /\ \A r \in Requests :
            requests[r].headersSent =>
              \/ requests'[r] = IdleRequest
              \/ /\ requests'[r].headersSent
                 /\ requests'[r].statusCode = requests[r].statusCode
                 /\ requests'[r].errorBody = requests[r].errorBody]_vars

\* One request was refused for its size after the server was made, and the
\* dispatch of another threw with the headers already sent.
C37_Witness ==
  /\ \E c \in Calls :
       /\ calls[c].kind = "http" /\ calls[c].http.statusCode = 413
       /\ calls[c].http.madeServer /\ calls[c].http.destroyed
  /\ \E r \in Requests :
       requests[r].threw /\ requests[r].sentAtThrow /\ requests[r].statusCode = 0

\* C38: startHttpServer is single-flight. Of the servers it has created at
\* most one is neither failed nor closed; the calls that have resolved with
\* no stop begun or completed since resolved with the promise of the same
\* server; the
\* promise of a server whose listen failed is not the cached one; a call
\* that finds a cached promise creates nothing and returns it; a call that
\* finds none, as after a listen error or a completed stop, creates a new
\* server and listens; and a stop that completes leaves nothing cached.
C38_SingleFlight ==
  /\ [](/\ Cardinality(Live) <= 1
        /\ \A i, j \in StartCalls :
             /\ startCalls[i].pc = "resolved" /\ ~startCalls[i].stopSince
             /\ startCalls[j].pc = "resolved" /\ ~startCalls[j].stopSince
             => startCalls[i].server = startCalls[j].server
        /\ \A k \in Servers : httpServers[k].state = "failed" => serverUriPromise # k)
  /\ [][/\ \A i \in StartCalls :
            startCalls[i].pc = "idle" /\ startCalls'[i].pc = "awaiting" =>
              IF serverUriPromise # NoServer
              THEN httpServers' = httpServers /\ startCalls'[i].server = serverUriPromise
              ELSE /\ httpServers[startCalls'[i].server].state = "none"
                   /\ httpServers'[startCalls'[i].server].state = "binding"
                   /\ serverUriPromise' = startCalls'[i].server
        /\ \A j \in StopCalls :
            stopCalls[j].pc = "closing" /\ stopCalls'[j].pc = "done" =>
              serverUriPromise' = NoServer /\ runningServer' = NoServer]_vars

\* A first listen failed, the next call listened afresh, and two calls have
\* resolved with that server.
C38_Witness ==
  /\ httpServers[1].state = "failed" /\ httpServers[2].state = "listening"
  /\ \A i \in 1..2 :
       startCalls[i].pc = "resolved" /\ startCalls[i].server = 2 /\ ~startCalls[i].stopSince

\* C39: while a call of startHttpServer has resolved with the URI and no
\* call of stopHttpServer has begun since it was made, a server is listening
\* there (one that is closing still counts).
C39_ResolvedMeansListening ==
  \A i \in StartCalls :
    startCalls[i].pc = "resolved" /\ ~startCalls[i].stopBegunSince =>
      \E k \in Servers : httpServers[k].state \in {"listening", "closing"}

====
